---- MODULE Spec2Model ----
(***************************************************************************)
(* Model of python-schema-registry-client:                                 *)
(*   - the three caches of BaseClient and the operations of                *)
(*     SchemaRegistryClient that read and write them                       *)
(*     (schema_registry/client/client.py),                                 *)
(*   - the wire envelope and the codec memos of MessageSerializer          *)
(*     (schema_registry/serializers/message_serializer.py).                *)
(* The registry is the environment: every network call is answered by a    *)
(* response chosen from a small set (status code and body) or times out.   *)
(* One action models one whole client or serializer call.                  *)
(***************************************************************************)
EXTENDS Integers, Sequences, FiniteSets, TLC

VARIABLES
    subject_to_schema_ids,       \* subject -> (str(schema) -> id)
    subject_to_schema_versions,  \* subject -> (str(schema) -> version)
    id_to_schema,                \* id -> schema
    id_to_writers,               \* id -> schema the memoized encoder closes over
    id_to_decoder_func,          \* id -> schema the memoized decoder closes over
    last,                        \* the call just made: arguments, network calls, outcome
    tasks,                       \* concurrent callers of the async client: position and locals
    registry,                    \* the registry the concurrent callers talk to
    runs                         \* interpreter runs: the str hashes each has handed out

vars == <<subject_to_schema_ids, subject_to_schema_versions, id_to_schema,
          id_to_writers, id_to_decoder_func, last, tasks, registry, runs>>

(***************************************************************************)
(* Bounds of the model.                                                    *)
(***************************************************************************)
\* versions answered by the registry are 0..MaxVersion
MaxVersion == 1
\* values of an Avro int field are -MaxInt..MaxInt
MaxInt == 1
\* raw messages handed to decode_message have at most MaxLen bytes
MaxLen == 6

(***************************************************************************)
(* Values.                                                                 *)
(***************************************************************************)
\* Python's None where an integer (id, version, http code) is expected
None == -1

Subjects == {"s1", "s2"}
\* the subject argument _cache_schema gets from get_by_id (None, falsy)
NoSubject == ""

\* A schema object: its declared kind and its parsed form.  An Avro record
\* schema is represented by the list of its field types.
Schemas ==
    { [schema_type |-> "AVRO", schema |-> f] : f \in {<<>>, <<"int">>} }
NoSchema == [schema_type |-> "", schema |-> <<>>]

\* schema ids the registry answers with: zero, and 0x01020304 whose four
\* bytes differ
Ids == {0, 16909060}
Versions == 0..MaxVersion

\* BaseSchema.__str__: the text of the parsed schema, used as the cache key
Str(schema) == schema.schema

(***************************************************************************)
(* HTTP status codes (schema_registry/client/status.py).                   *)
(***************************************************************************)
HTTP_401_UNAUTHORIZED == 401
HTTP_403_FORBIDDEN == 403
HTTP_404_NOT_FOUND == 404
HTTP_409_CONFLICT == 409
HTTP_422_UNPROCESSABLE_ENTITY == 422

is_success(code) == 200 <= code /\ code <= 299
is_client_error(code) == 400 <= code /\ code <= 499

\* status codes the registry answers with
Codes == {200, 401, 403, 404, 409, 422, 500}

(***************************************************************************)
(* Registry responses.                                                     *)
(***************************************************************************)
\* The decoded JSON body of a response.  A success body carries the fields
\* the endpoint answers with; an error body carries the registry's error
\* code, which is the status code followed by two digits.
Result(id, version, schema, error_code) ==
    [schema |-> schema, id |-> id, version |-> version, error_code |-> error_code,
     versions |-> <<>>, is_compatible |-> FALSE]
NoResult == Result(None, None, NoSchema, None)
ErrorBody(code) == Result(None, None, NoSchema, code * 100 + 1)

Http(code, result) == [code |-> code, result |-> result, kind |-> "http"]
\* the request raised (httpx timeout): no status code, no body
Timeout == [code |-> None, result |-> NoResult, kind |-> "timeout"]

\* the failures of a call: the non-2xx answers with the given status codes,
\* and the timeout
ErrorResponses(codes) ==
    { Http(c, ErrorBody(c)) : c \in {c2 \in codes : ~is_success(c2)} } \cup {Timeout}
\* status codes the endpoints other than register are exercised with
LookupCodes == {200, 404, 422, 500}
SuccessCodes == {c \in Codes : is_success(c)}

\* POST /subjects/{subject}/versions
RegisterResponses ==
    { Http(c, Result(i, None, NoSchema, None)) : c \in SuccessCodes, i \in Ids }
        \cup ErrorResponses(Codes)
\* POST /subjects/{subject}: id and version (the version may be missing)
CheckVersionResponses(schema) ==
    { Http(c, Result(i, v, schema, None)) :
        c \in SuccessCodes, i \in Ids, v \in Versions \cup {None} }
        \cup ErrorResponses(LookupCodes)
\* GET /schemas/ids/{id}
GetByIdResponses ==
    { Http(c, Result(None, None, x, None)) : c \in SuccessCodes, x \in Schemas }
        \cup ErrorResponses(LookupCodes)
\* GET /subjects/{subject}/versions/{version}
GetSchemaResponses ==
    { Http(c, Result(i, v, x, None)) :
        c \in SuccessCodes, i \in Ids, v \in Versions, x \in Schemas }
        \cup ErrorResponses(LookupCodes)

\* GET /subjects/{subject}/versions and DELETE /subjects/{subject}: a list
\* of versions
VersionListResponses ==
    { Http(c, [NoResult EXCEPT !.versions = l]) :
        c \in SuccessCodes, l \in {<<1>>} }
        \cup ErrorResponses(LookupCodes)

\* DELETE /subjects/{subject}/versions/{version}: the version deleted
DeleteVersionResponses ==
    { Http(c, Result(None, 1, NoSchema, None)) : c \in SuccessCodes }
        \cup ErrorResponses(LookupCodes)
\* POST /compatibility/subjects/{subject}/versions/{version}
CompatibilityResponses ==
    { Http(c, [NoResult EXCEPT !.is_compatible = b]) :
        c \in SuccessCodes, b \in BOOLEAN }
        \cup ErrorResponses(LookupCodes)

(***************************************************************************)
(* Outcome of a call.                                                      *)
(***************************************************************************)
NoValue ==
    [schema |-> NoSchema, version |-> None, versions |-> <<>>, is_compatible |-> FALSE,
     schema_id |-> None, subject |-> "", message |-> <<>>, record |-> <<>>]
NoError ==
    [message |-> "", cls |-> "", http_code |-> None, server_traceback |-> NoResult]

Return(value) == [value |-> value, ret |-> "value", error |-> NoError]
ReturnNone == [value |-> NoValue, ret |-> "none", error |-> NoError]
Raise(cls, message, http_code, server_traceback) ==
    [value |-> NoValue, ret |-> "raise",
     error |-> [message |-> message, cls |-> cls, http_code |-> http_code,
                server_traceback |-> server_traceback]]
\* the exception of a request that timed out, propagated unchanged
RaiseTimeout == Raise("TimeoutException", "timeout", None, NoResult)

\* one network call: the endpoint and the response it got
Call(endpoint, response) ==
    [code |-> response.code, result |-> response.result, endpoint |-> endpoint]

(***************************************************************************)
(* Dictionaries.                                                           *)
(***************************************************************************)
EmptyDict == [k \in {} |-> None]
Put(d, k, v) == [j \in DOMAIN d \cup {k} |-> IF j = k THEN v ELSE d[j]]
\* dict.get(k): None when the key is missing
Get(d, k) == IF k \in DOMAIN d THEN d[k] ELSE None

\* the three caches of a client as one value
Caches ==
    [subject_to_schema_ids |-> subject_to_schema_ids,
     subject_to_schema_versions |-> subject_to_schema_versions,
     id_to_schema |-> id_to_schema]

(***************************************************************************)
(* BaseClient._cache_schema and its two helpers.                           *)
(***************************************************************************)
_cache_subject_to_schema_ids(c, subject, schema, value) ==
    [c EXCEPT !.subject_to_schema_ids[subject] = Put(@, Str(schema), value)]

_cache_subject_to_schema_versions(c, subject, schema, value) ==
    [c EXCEPT !.subject_to_schema_versions[subject] = Put(@, Str(schema), value)]

\* _cache_schema as it would be if it stored the schema it is given even
\* when the id is already cached
_cache_schema_overwrite(c, schema, schema_id, subject, version) ==
    LET c1 == [c EXCEPT !.id_to_schema = Put(@, schema_id, schema)]
        c2 == IF subject # NoSubject
              THEN _cache_subject_to_schema_ids(c1, subject, schema, schema_id)
              ELSE c1
    IN  IF subject # NoSubject /\ version # None /\ version # 0
        THEN _cache_subject_to_schema_versions(c2, subject, schema, version)
        ELSE c2

\* _cache_schema as it would be if it kept the first schema of an id but
\* keyed the subject entries by the schema it is given
_cache_schema_key_by_argument(c, schema, schema_id, subject, version) ==
    LET c1 == IF schema_id \in DOMAIN c.id_to_schema
              THEN c
              ELSE [c EXCEPT !.id_to_schema = Put(@, schema_id, schema)]
        c2 == IF subject # NoSubject
              THEN _cache_subject_to_schema_ids(c1, subject, schema, schema_id)
              ELSE c1
    IN  IF subject # NoSubject /\ version # None /\ version # 0
        THEN _cache_subject_to_schema_versions(c2, subject, schema, version)
        ELSE c2

\* _cache_schema as it would be if it wrote the version under the key of the
\* schema it is given instead of the key it has just written the id under
_cache_schema_version_by_argument(c, schema, schema_id, subject, version) ==
    LET cached == IF schema_id \in DOMAIN c.id_to_schema
                  THEN c.id_to_schema[schema_id] ELSE schema
        c1 == IF schema_id \in DOMAIN c.id_to_schema
              THEN c
              ELSE [c EXCEPT !.id_to_schema = Put(@, schema_id, schema)]
        c2 == IF subject # NoSubject
              THEN _cache_subject_to_schema_ids(c1, subject, cached, schema_id)
              ELSE c1
    IN  IF subject # NoSubject /\ version # None /\ version # 0
        THEN _cache_subject_to_schema_versions(c2, subject, schema, version)
        ELSE c2

_cache_schema(c, schema, schema_id, subject, version) ==
    LET cached == IF schema_id \in DOMAIN c.id_to_schema
                  THEN c.id_to_schema[schema_id] ELSE schema
        c1 == IF schema_id \in DOMAIN c.id_to_schema
              THEN c
              ELSE [c EXCEPT !.id_to_schema = Put(@, schema_id, schema)]
        c2 == IF subject # NoSubject
              THEN _cache_subject_to_schema_ids(c1, subject, cached, schema_id)
              ELSE c1
    IN  IF subject # NoSubject /\ version # None /\ version # 0
        THEN _cache_subject_to_schema_versions(c2, subject, cached, version)
        ELSE c2

(***************************************************************************)
(* Operations of SchemaRegistryClient.  Each operator takes the caches and *)
(* the responses the registry gives to the calls the operation may issue,  *)
(* and yields the new caches, the calls actually made and the outcome.     *)
(***************************************************************************)
Done(c, calls, outcome) == [calls |-> calls, outcome |-> outcome, caches |-> c]

SchemaVersion(subject, schema_id, schema, version) ==
    [NoValue EXCEPT !.subject = subject, !.schema_id = schema_id,
                    !.schema = schema, !.version = version]

\* Python truthiness of an optional integer: None and 0 are false
Truthy(n) == n # None /\ n # 0

\* check_version as it would be if it tested the cached id and version
\* against None instead of their truth value
check_version_is_not_none(c, subject, schema, response) ==
    LET version == Get(c.subject_to_schema_versions[subject], Str(schema))
        schema_id == Get(c.subject_to_schema_ids[subject], Str(schema))
        calls == <<Call("check_version", response)>>
        code == response.code
        result == response.result
    IN  IF version # None /\ schema_id # None
        THEN Done(c, <<>>, Return(SchemaVersion(subject, schema_id, schema, version)))
        ELSE IF response.kind = "timeout"
        THEN Done(c, calls, RaiseTimeout)
        ELSE IF code = HTTP_404_NOT_FOUND
        THEN Done(c, calls, ReturnNone)
        ELSE IF is_success(code)
        THEN Done(_cache_schema(c, schema, result.id, subject, result.version), calls,
                  Return(SchemaVersion(subject, result.id, result.schema, result.version)))
        ELSE Done(c, calls,
                  Raise("ClientError", "Unable to get version of a schema", code, result))

check_version(c, subject, schema, response) ==
    LET version == Get(c.subject_to_schema_versions[subject], Str(schema))
        schema_id == Get(c.subject_to_schema_ids[subject], Str(schema))
        calls == <<Call("check_version", response)>>
        code == response.code
        result == response.result
    IN  IF Truthy(version) /\ Truthy(schema_id)
        THEN Done(c, <<>>, Return(SchemaVersion(subject, schema_id, schema, version)))
        ELSE IF response.kind = "timeout"
        THEN Done(c, calls, RaiseTimeout)
        ELSE IF code = HTTP_404_NOT_FOUND
        THEN Done(c, calls, ReturnNone)
        ELSE IF is_success(code)
        THEN Done(_cache_schema(c, schema, result.id, subject, result.version), calls,
                  Return(SchemaVersion(subject, result.id, result.schema, result.version)))
        ELSE Done(c, calls,
                  Raise("ClientError", "Unable to get version of a schema", code, result))

\* the error mapping as it would be if 403 were not treated as unauthorized
RegisterErrorMessage_without_403(code) ==
    IF code = HTTP_401_UNAUTHORIZED THEN "Unauthorized access"
    ELSE IF code = HTTP_409_CONFLICT THEN "Incompatible schema"
    ELSE IF code = HTTP_422_UNPROCESSABLE_ENTITY THEN "Invalid schema"
    ELSE IF ~is_success(code) THEN "Unable to register schema"
    ELSE ""

\* the message register picks for the status code of the register endpoint
RegisterErrorMessage(code) ==
    IF code \in {HTTP_401_UNAUTHORIZED, HTTP_403_FORBIDDEN} THEN "Unauthorized access"
    ELSE IF code = HTTP_409_CONFLICT THEN "Incompatible schema"
    ELSE IF code = HTTP_422_UNPROCESSABLE_ENTITY THEN "Invalid schema"
    ELSE IF ~is_success(code) THEN "Unable to register schema"
    ELSE ""

\* register as it would be if it posted to the register endpoint without
\* asking check_version first
register_without_check(c, subject, schema, cv_response, reg_response) ==
    LET schema_id == Get(c.subject_to_schema_ids[subject], Str(schema))
        calls == <<Call("register", reg_response)>>
        code == reg_response.code
        result == reg_response.result
        msg == RegisterErrorMessage(code)
    IN  IF schema_id # None
        THEN Done(c, <<>>, Return([NoValue EXCEPT !.schema_id = schema_id]))
        ELSE IF reg_response.kind = "timeout"
        THEN Done(c, calls, RaiseTimeout)
        ELSE IF msg # ""
        THEN Done(c, calls, Raise("ClientError", msg, code, result))
        ELSE Done(_cache_schema(c, schema, result.id, subject, None), calls,
                  Return([NoValue EXCEPT !.schema_id = result.id]))

\* register as it would be if it posted once more after a failed post
register_retries(c, subject, schema, cv_response, reg_response) ==
    LET schema_id == Get(c.subject_to_schema_ids[subject], Str(schema))
        cv == check_version(c, subject, schema, cv_response)
        calls == cv.calls \o <<Call("register", reg_response)>>
        code == reg_response.code
        result == reg_response.result
        msg == RegisterErrorMessage(code)
    IN  IF schema_id # None
        THEN Done(c, <<>>, Return([NoValue EXCEPT !.schema_id = schema_id]))
        ELSE IF cv.outcome.ret = "raise"
        THEN cv
        ELSE IF cv.outcome.ret = "value"
        THEN Done(cv.caches, cv.calls,
                  Return([NoValue EXCEPT !.schema_id = cv.outcome.value.schema_id]))
        ELSE IF reg_response.kind = "timeout"
        THEN Done(cv.caches, calls \o <<Call("register", reg_response)>>, RaiseTimeout)
        ELSE IF msg # ""
        THEN Done(cv.caches, calls \o <<Call("register", reg_response)>>,
                  Raise("ClientError", msg, code, result))
        ELSE Done(_cache_schema(cv.caches, schema, result.id, subject, None), calls,
                  Return([NoValue EXCEPT !.schema_id = result.id]))

register(c, subject, schema, cv_response, reg_response) ==
    LET schema_id == Get(c.subject_to_schema_ids[subject], Str(schema))
        cv == check_version(c, subject, schema, cv_response)
        calls == cv.calls \o <<Call("register", reg_response)>>
        code == reg_response.code
        result == reg_response.result
        msg == RegisterErrorMessage(code)
    IN  IF schema_id # None
        THEN Done(c, <<>>, Return([NoValue EXCEPT !.schema_id = schema_id]))
        ELSE IF cv.outcome.ret = "raise"
        THEN cv
        ELSE IF cv.outcome.ret = "value"
        THEN Done(cv.caches, cv.calls,
                  Return([NoValue EXCEPT !.schema_id = cv.outcome.value.schema_id]))
        ELSE IF reg_response.kind = "timeout"
        THEN Done(cv.caches, calls, RaiseTimeout)
        ELSE IF msg # ""
        THEN Done(cv.caches, calls, Raise("ClientError", msg, code, result))
        ELSE Done(_cache_schema(cv.caches, schema, result.id, subject, None), calls,
                  Return([NoValue EXCEPT !.schema_id = result.id]))

\* get_by_id as it would be if 404 were not singled out
get_by_id_raises_on_404(c, schema_id, response) ==
    LET calls == <<Call("get_by_id", response)>>
        code == response.code
        result == response.result
    IN  IF schema_id \in DOMAIN c.id_to_schema
        THEN Done(c, <<>>, Return([NoValue EXCEPT !.schema = c.id_to_schema[schema_id]]))
        ELSE IF response.kind = "timeout"
        THEN Done(c, calls, RaiseTimeout)
        ELSE IF is_success(code)
        THEN Done(_cache_schema(c, result.schema, schema_id, NoSubject, None), calls,
                  Return([NoValue EXCEPT !.schema = result.schema]))
        ELSE Done(c, calls,
                  Raise("ClientError", "Received bad schema", code, result))

\* get_by_id as it would be if it cached the body before looking at the
\* status code
get_by_id_caches_first(c, schema_id, response) ==
    LET calls == <<Call("get_by_id", response)>>
        code == response.code
        result == response.result
        c1 == _cache_schema(c, result.schema, schema_id, NoSubject, None)
    IN  IF schema_id \in DOMAIN c.id_to_schema
        THEN Done(c, <<>>, Return([NoValue EXCEPT !.schema = c.id_to_schema[schema_id]]))
        ELSE IF response.kind = "timeout"
        THEN Done(c, calls, RaiseTimeout)
        ELSE IF code = HTTP_404_NOT_FOUND
        THEN Done(c1, calls, ReturnNone)
        ELSE IF is_success(code)
        THEN Done(c1, calls, Return([NoValue EXCEPT !.schema = result.schema]))
        ELSE Done(c1, calls,
                  Raise("ClientError", "Received bad schema", code, result))

get_by_id(c, schema_id, response) ==
    LET calls == <<Call("get_by_id", response)>>
        code == response.code
        result == response.result
    IN  IF schema_id \in DOMAIN c.id_to_schema
        THEN Done(c, <<>>, Return([NoValue EXCEPT !.schema = c.id_to_schema[schema_id]]))
        ELSE IF response.kind = "timeout"
        THEN Done(c, calls, RaiseTimeout)
        ELSE IF code = HTTP_404_NOT_FOUND
        THEN Done(c, calls, ReturnNone)
        ELSE IF is_success(code)
        THEN Done(_cache_schema(c, result.schema, schema_id, NoSubject, None), calls,
                  Return([NoValue EXCEPT !.schema = result.schema]))
        ELSE Done(c, calls,
                  Raise("ClientError", "Received bad schema", code, result))

get_schema(c, subject, version, response) ==
    LET calls == <<Call("get_schema", response)>>
        code == response.code
        result == response.result
        schema == IF result.id \in DOMAIN c.id_to_schema
                  THEN c.id_to_schema[result.id] ELSE result.schema
    IN  IF response.kind = "timeout"
        THEN Done(c, calls, RaiseTimeout)
        ELSE IF code = HTTP_404_NOT_FOUND
        THEN Done(c, calls, ReturnNone)
        ELSE IF code = HTTP_422_UNPROCESSABLE_ENTITY
        THEN Done(c, calls, ReturnNone)
        ELSE IF ~is_success(code)
        THEN Done(c, calls, ReturnNone)
        ELSE Done(_cache_schema(c, schema, result.id, subject, result.version), calls,
                  Return(SchemaVersion(subject, result.id, schema, result.version)))

\* GET /subjects/{subject}/versions
get_versions(c, subject, response) ==
    LET calls == <<Call("get_versions", response)>>
        code == response.code
        result == response.result
    IN  IF response.kind = "timeout"
        THEN Done(c, calls, RaiseTimeout)
        ELSE IF is_success(code)
        THEN Done(c, calls, Return([NoValue EXCEPT !.versions = result.versions]))
        ELSE IF code = HTTP_404_NOT_FOUND
        THEN Done(c, calls, Return([NoValue EXCEPT !.versions = <<>>]))
        ELSE Done(c, calls,
                  Raise("ClientError", "Unable to get the versions for subject", code, result))

\* delete_subject as it would be if a successful deletion also purged the
\* subject's cache entries
delete_subject_purges(c, subject, response) ==
    LET calls == <<Call("delete_subject", response)>>
        code == response.code
        result == response.result
        purged == [c EXCEPT !.subject_to_schema_ids[subject] = EmptyDict,
                            !.subject_to_schema_versions[subject] = EmptyDict]
    IN  IF response.kind = "timeout"
        THEN Done(c, calls, RaiseTimeout)
        ELSE IF is_success(code)
        THEN Done(purged, calls, Return([NoValue EXCEPT !.versions = result.versions]))
        ELSE IF code = HTTP_404_NOT_FOUND
        THEN Done(c, calls, Return([NoValue EXCEPT !.versions = <<>>]))
        ELSE Done(c, calls, Raise("ClientError", "Unable to delete subject", code, result))

\* DELETE /subjects/{subject}
delete_subject(c, subject, response) ==
    LET calls == <<Call("delete_subject", response)>>
        code == response.code
        result == response.result
    IN  IF response.kind = "timeout"
        THEN Done(c, calls, RaiseTimeout)
        ELSE IF is_success(code)
        THEN Done(c, calls, Return([NoValue EXCEPT !.versions = result.versions]))
        ELSE IF code = HTTP_404_NOT_FOUND
        THEN Done(c, calls, Return([NoValue EXCEPT !.versions = <<>>]))
        ELSE Done(c, calls, Raise("ClientError", "Unable to delete subject", code, result))

\* DELETE /subjects/{subject}/versions/{version}
delete_version(c, subject, version, response) ==
    LET calls == <<Call("delete_version", response)>>
        code == response.code
        result == response.result
    IN  IF response.kind = "timeout"
        THEN Done(c, calls, RaiseTimeout)
        ELSE IF is_success(code)
        THEN Done(c, calls, Return([NoValue EXCEPT !.version = result.version]))
        ELSE IF is_client_error(code)
        THEN Done(c, calls, ReturnNone)
        ELSE Done(c, calls,
                  Raise("ClientError", "Unable to delete the version", code, result))

\* POST /compatibility/subjects/{subject}/versions/{version}, verbose=False
test_compatibility(c, subject, schema, version, response) ==
    LET calls == <<Call("test_compatibility", response)>>
        code == response.code
        result == response.result
    IN  IF response.kind = "timeout"
        THEN Done(c, calls, RaiseTimeout)
        ELSE IF code = HTTP_404_NOT_FOUND
        THEN Done(c, calls, Return([NoValue EXCEPT !.is_compatible = FALSE]))
        ELSE IF code # HTTP_422_UNPROCESSABLE_ENTITY /\ is_success(code)
        THEN Done(c, calls, Return([NoValue EXCEPT !.is_compatible = result.is_compatible]))
        ELSE Done(c, calls,
                  Raise("ClientError", "Unable to check the compatibility", code, result))

(***************************************************************************)
(* Operations of AsyncSchemaRegistryClient, each run by one task from its  *)
(* call to its return: the awaits are the requests, whose responses are    *)
(* the parameters.                                                         *)
(***************************************************************************)
async_check_version(c, subject, schema, response) ==
    LET schemas_to_version == c.subject_to_schema_versions[subject]
        version == Get(schemas_to_version, Str(schema))
        schemas_to_id == c.subject_to_schema_ids[subject]
        schema_id == Get(schemas_to_id, Str(schema))
        calls == <<Call("check_version", response)>>
        code == response.code
        result == response.result
    IN  IF Truthy(version) /\ Truthy(schema_id)
        THEN Done(c, <<>>, Return(SchemaVersion(subject, schema_id, schema, version)))
        ELSE IF response.kind = "timeout"
        THEN Done(c, calls, RaiseTimeout)
        ELSE IF code = HTTP_404_NOT_FOUND
        THEN Done(c, calls, ReturnNone)
        ELSE IF is_success(code)
        THEN Done(_cache_schema(c, schema, result.id, subject, result.version), calls,
                  Return(SchemaVersion(subject, result.id, result.schema, result.version)))
        ELSE Done(c, calls,
                  Raise("ClientError", "Unable to get version of a schema", code, result))

async_register(c, subject, schema, cv_response, reg_response) ==
    LET schema_id == Get(c.subject_to_schema_ids[subject], Str(schema))
        cv == async_check_version(c, subject, schema, cv_response)
        calls == cv.calls \o <<Call("register", reg_response)>>
        code == reg_response.code
        result == reg_response.result
        msg == IF code \in {HTTP_401_UNAUTHORIZED, HTTP_403_FORBIDDEN}
               THEN "Unauthorized access"
               ELSE IF code = HTTP_409_CONFLICT THEN "Incompatible Avro schema"
               ELSE IF code = HTTP_422_UNPROCESSABLE_ENTITY THEN "Invalid Avro schema"
               ELSE IF ~is_success(code) THEN "Unable to register schema"
               ELSE ""
    IN  IF schema_id # None
        THEN Done(c, <<>>, Return([NoValue EXCEPT !.schema_id = schema_id]))
        ELSE IF cv.outcome.ret = "raise"
        THEN cv
        ELSE IF cv.outcome.ret = "value"
        THEN Done(cv.caches, cv.calls,
                  Return([NoValue EXCEPT !.schema_id = cv.outcome.value.schema_id]))
        ELSE IF reg_response.kind = "timeout"
        THEN Done(cv.caches, calls, RaiseTimeout)
        ELSE IF msg # ""
        THEN Done(cv.caches, calls, Raise("ClientError", msg, code, result))
        ELSE Done(_cache_schema(cv.caches, schema, result.id, subject, None), calls,
                  Return([NoValue EXCEPT !.schema_id = result.id]))

async_get_by_id(c, schema_id, response) ==
    LET calls == <<Call("get_by_id", response)>>
        code == response.code
        result == response.result
    IN  IF schema_id \in DOMAIN c.id_to_schema
        THEN Done(c, <<>>, Return([NoValue EXCEPT !.schema = c.id_to_schema[schema_id]]))
        ELSE IF response.kind = "timeout"
        THEN Done(c, calls, RaiseTimeout)
        ELSE IF code = HTTP_404_NOT_FOUND
        THEN Done(c, calls, ReturnNone)
        ELSE IF is_success(code)
        THEN Done(_cache_schema(c, result.schema, schema_id, NoSubject, None), calls,
                  Return([NoValue EXCEPT !.schema = result.schema]))
        ELSE Done(c, calls,
                  Raise("ClientError", "Received bad schema", code, result))

async_get_schema(c, subject, version, response) ==
    LET calls == <<Call("get_schema", response)>>
        code == response.code
        result == response.result
        schema == IF result.id \in DOMAIN c.id_to_schema
                  THEN c.id_to_schema[result.id] ELSE result.schema
    IN  IF response.kind = "timeout"
        THEN Done(c, calls, RaiseTimeout)
        ELSE IF code = HTTP_404_NOT_FOUND
        THEN Done(c, calls, ReturnNone)
        ELSE IF code = HTTP_422_UNPROCESSABLE_ENTITY
        THEN Done(c, calls, ReturnNone)
        ELSE IF ~is_success(code)
        THEN Done(c, calls, ReturnNone)
        ELSE Done(_cache_schema(c, schema, result.id, subject, result.version), calls,
                  Return(SchemaVersion(subject, result.id, schema, result.version)))

async_get_versions(c, subject, response) ==
    LET calls == <<Call("get_versions", response)>>
        code == response.code
        result == response.result
    IN  IF response.kind = "timeout"
        THEN Done(c, calls, RaiseTimeout)
        ELSE IF is_success(code)
        THEN Done(c, calls, Return([NoValue EXCEPT !.versions = result.versions]))
        ELSE IF code = HTTP_404_NOT_FOUND
        THEN Done(c, calls, Return([NoValue EXCEPT !.versions = <<>>]))
        ELSE Done(c, calls,
                  Raise("ClientError", "Unable to get the versions for subject", code, result))

async_delete_subject(c, subject, response) ==
    LET calls == <<Call("delete_subject", response)>>
        code == response.code
        result == response.result
    IN  IF response.kind = "timeout"
        THEN Done(c, calls, RaiseTimeout)
        ELSE IF is_success(code)
        THEN Done(c, calls, Return([NoValue EXCEPT !.versions = result.versions]))
        ELSE IF code = HTTP_404_NOT_FOUND
        THEN Done(c, calls, Return([NoValue EXCEPT !.versions = <<>>]))
        ELSE Done(c, calls, Raise("ClientError", "Unable to delete subject", code, result))

async_delete_version(c, subject, version, response) ==
    LET calls == <<Call("delete_version", response)>>
        code == response.code
        result == response.result
    IN  IF response.kind = "timeout"
        THEN Done(c, calls, RaiseTimeout)
        ELSE IF is_success(code)
        THEN Done(c, calls, Return([NoValue EXCEPT !.version = result.version]))
        ELSE IF is_client_error(code)
        THEN Done(c, calls, ReturnNone)
        ELSE Done(c, calls,
                  Raise("ClientError", "Unable to delete the version", code, result))

\* verbose=False; unlike the sync client, 422 returns False
async_test_compatibility(c, subject, schema, version, response) ==
    LET calls == <<Call("test_compatibility", response)>>
        code == response.code
        result == response.result
    IN  IF response.kind = "timeout"
        THEN Done(c, calls, RaiseTimeout)
        ELSE IF code = HTTP_404_NOT_FOUND
        THEN Done(c, calls, Return([NoValue EXCEPT !.is_compatible = FALSE]))
        ELSE IF code = HTTP_422_UNPROCESSABLE_ENTITY
        THEN Done(c, calls, Return([NoValue EXCEPT !.is_compatible = FALSE]))
        ELSE IF is_success(code)
        THEN Done(c, calls, Return([NoValue EXCEPT !.is_compatible = result.is_compatible]))
        ELSE Done(c, calls,
                  Raise("ClientError", "Unable to check the compatibility", code, result))

(***************************************************************************)
(* The wire envelope: struct.pack(">bI", magic, schema_id) and its inverse. *)
(***************************************************************************)
MAGIC_BYTE == 0

\* byte k (0 = least significant) of a non-negative integer
ByteOf(n, k) == (n \div (256 ^ k)) % 256

\* the header as it would be with the id in little-endian order ("<bI")
Pack_little_endian(magic, schema_id) ==
    <<magic % 256, ByteOf(schema_id, 0), ByteOf(schema_id, 1),
      ByteOf(schema_id, 2), ByteOf(schema_id, 3)>>

\* ">bI": one signed byte, then an unsigned 32-bit integer, big-endian
Pack(magic, schema_id) ==
    <<magic % 256, ByteOf(schema_id, 3), ByteOf(schema_id, 2),
      ByteOf(schema_id, 1), ByteOf(schema_id, 0)>>

Unpack(header) ==
    [schema_id |-> ((header[2] * 256 + header[3]) * 256 + header[4]) * 256 + header[5],
     magic |-> IF header[1] > 127 THEN header[1] - 256 ELSE header[1]]
NoHeader == [schema_id |-> None, magic |-> None]

Take(seq, n) == SubSeq(seq, 1, IF n < Len(seq) THEN n ELSE Len(seq))
Drop(seq, n) == SubSeq(seq, n + 1, Len(seq))

(***************************************************************************)
(* The Avro codec (fastavro schemaless_writer / schemaless_reader) for     *)
(* record schemas whose fields are ints: a record is the list of its field *)
(* values, each tagged with its Python type; an int is written as a        *)
(* zig-zag varint, one byte for the values of the model.                   *)
(***************************************************************************)
ZigZag(n) == IF n >= 0 THEN 2 * n ELSE -2 * n - 1
UnZigZag(b) == IF b % 2 = 0 THEN b \div 2 ELSE -((b + 1) \div 2)

Values == { <<"int", n>> : n \in -MaxInt..MaxInt } \cup { <<"str", 0>> }
Records == { <<>> } \cup { <<v>> : v \in Values }

\* a record conforms to a schema when it has exactly its fields, each of
\* the declared type
Conforms(record, schema) ==
    /\ Len(record) = Len(schema.schema)
    /\ \A i \in 1..Len(record) : record[i][1] = schema.schema[i]

\* the writer raises on a missing field or a value of the wrong type and
\* ignores the fields the schema does not declare
AvroEncode(schema, record) ==
    LET n == Len(schema.schema) IN
    IF Len(record) < n \/ \E i \in 1..n : record[i][1] # schema.schema[i]
    THEN [ok |-> FALSE, bytes |-> <<>>]
    ELSE [ok |-> TRUE, bytes |-> [i \in 1..n |-> ZigZag(record[i][2])]]

\* the reader raises at the end of the input and ignores trailing bytes
AvroDecode(schema, payload) ==
    LET n == Len(schema.schema) IN
    IF Len(payload) < n
    THEN [record |-> <<>>, ok |-> FALSE]
    ELSE [record |-> [i \in 1..n |-> <<schema.schema[i], UnZigZag(payload[i])>>],
          ok |-> TRUE]

(***************************************************************************)
(* MessageSerializer.  The memo of encoders (id_to_writers) and of         *)
(* decoders (id_to_decoder_func) maps an id to the schema the memoized     *)
(* function closes over.                                                   *)
(***************************************************************************)
\* decode_message(None)
NoneMessage == <<None>>

\* the outcome of a serializer call; `unpacked` is the header the call read
\* from the message or wrote to it
SerDone(c, writers, decoders, calls, unpacked, outcome) ==
    [id_to_writers |-> writers, id_to_decoder_func |-> decoders, calls |-> calls,
     outcome |-> outcome, caches |-> c, unpacked |-> unpacked]

SerializerError(message) == Raise("SerializerError", message, None, NoResult)

\* encode_record_with_schema_id as it would be without the test of the
\* schema get_by_id returned: the encoder is built and memoized for None
encode_record_with_schema_id_without_check(c, writers, decoders, schema_id, record, response) ==
    LET fetch == get_by_id(c, schema_id, response)
        miss == schema_id \notin DOMAIN writers
        calls == IF miss THEN fetch.calls ELSE <<>>
        c1 == IF miss THEN fetch.caches ELSE c
        writers1 == IF miss /\ fetch.outcome.ret \in {"value", "none"}
                    THEN Put(writers, schema_id, fetch.outcome.value.schema)
                    ELSE writers
        written == AvroEncode(writers1[schema_id], record)
        header == [schema_id |-> schema_id, magic |-> MAGIC_BYTE]
    IN  IF miss /\ fetch.outcome.ret = "raise"
        THEN IF fetch.outcome.error.cls = "ClientError"
             THEN SerDone(c1, writers, decoders, calls, NoHeader,
                          SerializerError("ClientError traceback"))
             ELSE SerDone(c1, writers, decoders, calls, NoHeader, fetch.outcome)
        ELSE IF miss /\ fetch.outcome.ret = "none"
        THEN SerDone(c1, writers1, decoders, calls, header,
                     Raise("AttributeError", "codec", None, NoResult))
        ELSE IF ~written.ok
        THEN SerDone(c1, writers1, decoders, calls, header,
                     Raise("TypeError", "codec", None, NoResult))
        ELSE SerDone(c1, writers1, decoders, calls, header,
                     Return([NoValue EXCEPT
                                !.message = Pack(MAGIC_BYTE, schema_id) \o written.bytes]))

\* encode_record_with_schema_id as it would be if the writer ran inside the
\* try block and its error were wrapped
encode_record_with_schema_id_wraps(c, writers, decoders, schema_id, record, response) ==
    LET fetch == get_by_id(c, schema_id, response)
        miss == schema_id \notin DOMAIN writers
        calls == IF miss THEN fetch.calls ELSE <<>>
        c1 == IF miss THEN fetch.caches ELSE c
        writers1 == IF miss /\ fetch.outcome.ret = "value"
                    THEN Put(writers, schema_id, fetch.outcome.value.schema)
                    ELSE writers
        written == AvroEncode(writers1[schema_id], record)
        header == [schema_id |-> schema_id, magic |-> MAGIC_BYTE]
    IN  IF miss /\ fetch.outcome.ret = "raise"
        THEN IF fetch.outcome.error.cls = "ClientError"
             THEN SerDone(c1, writers, decoders, calls, NoHeader,
                          SerializerError("ClientError traceback"))
             ELSE SerDone(c1, writers, decoders, calls, NoHeader, fetch.outcome)
        ELSE IF miss /\ fetch.outcome.ret = "none"
        THEN SerDone(c1, writers, decoders, calls, NoHeader,
                     SerializerError("Schema does not exist"))
        ELSE IF ~written.ok
        THEN SerDone(c1, writers1, decoders, calls, header,
                     SerializerError("codec"))
        ELSE SerDone(c1, writers1, decoders, calls, header,
                     Return([NoValue EXCEPT
                                !.message = Pack(MAGIC_BYTE, schema_id) \o written.bytes]))

encode_record_with_schema_id(c, writers, decoders, schema_id, record, response) ==
    LET fetch == get_by_id(c, schema_id, response)
        miss == schema_id \notin DOMAIN writers
        calls == IF miss THEN fetch.calls ELSE <<>>
        c1 == IF miss THEN fetch.caches ELSE c
        writers1 == IF miss /\ fetch.outcome.ret = "value"
                    THEN Put(writers, schema_id, fetch.outcome.value.schema)
                    ELSE writers
        written == AvroEncode(writers1[schema_id], record)
        header == [schema_id |-> schema_id, magic |-> MAGIC_BYTE]
    IN  IF miss /\ fetch.outcome.ret = "raise"
        THEN IF fetch.outcome.error.cls = "ClientError"
             THEN SerDone(c1, writers, decoders, calls, NoHeader,
                          SerializerError("ClientError traceback"))
             ELSE SerDone(c1, writers, decoders, calls, NoHeader, fetch.outcome)
        ELSE IF miss /\ fetch.outcome.ret = "none"
        THEN SerDone(c1, writers, decoders, calls, NoHeader,
                     SerializerError("Schema does not exist"))
        ELSE IF ~written.ok
        THEN SerDone(c1, writers1, decoders, calls, header,
                     Raise("TypeError", "codec", None, NoResult))
        ELSE SerDone(c1, writers1, decoders, calls, header,
                     Return([NoValue EXCEPT
                                !.message = Pack(MAGIC_BYTE, schema_id) \o written.bytes]))

\* encode_record_with_schema as it would be if it built the encoder on every
\* call
encode_record_with_schema_rebuilds(c, writers, decoders, subject, schema, record, cv_response, reg_response) ==
    LET reg == register(c, subject, schema, cv_response, reg_response)
        schema_id == reg.outcome.value.schema_id
        writers1 == Put(writers, schema_id, schema)
        enc == encode_record_with_schema_id(reg.caches, writers1, decoders,
                                            schema_id, record, Timeout)
    IN  IF reg.outcome.ret = "raise"
        THEN SerDone(reg.caches, writers, decoders, reg.calls, NoHeader, reg.outcome)
        ELSE [enc EXCEPT !.calls = reg.calls \o @]

encode_record_with_schema(c, writers, decoders, subject, schema, record, cv_response, reg_response) ==
    LET reg == register(c, subject, schema, cv_response, reg_response)
        schema_id == reg.outcome.value.schema_id
        writers1 == IF schema_id \notin DOMAIN writers
                    THEN Put(writers, schema_id, schema) ELSE writers
        enc == encode_record_with_schema_id(reg.caches, writers1, decoders,
                                            schema_id, record, Timeout)
    IN  IF reg.outcome.ret = "raise"
        THEN SerDone(reg.caches, writers, decoders, reg.calls, NoHeader, reg.outcome)
        ELSE [enc EXCEPT !.calls = reg.calls \o @]

\* decode_message as it would be without the test for None
decode_message_without_none_check(c, writers, decoders, message, response) ==
    LET unpacked == Unpack(Take(message, 5))
        payload == Drop(message, 5)
        schema_id == unpacked.schema_id
        fetch == get_by_id(c, schema_id, response)
        writer_schema == fetch.outcome.value.schema
        Decoded(decoder_schema) ==
            LET read == AvroDecode(decoder_schema, payload) IN
            IF read.ok THEN Return([NoValue EXCEPT !.record = read.record])
            ELSE Raise("EOFError", "codec", None, NoResult)
    IN  IF message = NoneMessage
        THEN SerDone(c, writers, decoders, <<>>, NoHeader,
                     Raise("TypeError", "object of type 'NoneType' has no len()", None,
                           NoResult))
        ELSE IF Len(message) <= 5
        THEN SerDone(c, writers, decoders, <<>>, NoHeader,
                     SerializerError("message is too small to decode"))
        ELSE IF unpacked.magic # MAGIC_BYTE
        THEN SerDone(c, writers, decoders, <<>>, unpacked,
                     SerializerError("message does not start with magic byte"))
        ELSE IF schema_id \in DOMAIN decoders
        THEN SerDone(c, writers, decoders, <<>>, unpacked, Decoded(decoders[schema_id]))
        ELSE IF fetch.outcome.ret = "raise"
        THEN IF fetch.outcome.error.cls = "ClientError"
             THEN SerDone(fetch.caches, writers, decoders, fetch.calls, unpacked,
                          SerializerError("unable to fetch schema with id"))
             ELSE SerDone(fetch.caches, writers, decoders, fetch.calls, unpacked,
                          fetch.outcome)
        ELSE IF fetch.outcome.ret = "none"
        THEN SerDone(fetch.caches, writers, decoders, fetch.calls, unpacked,
                     SerializerError("unable to fetch schema with id"))
        ELSE SerDone(fetch.caches, writers, Put(decoders, schema_id, writer_schema),
                     fetch.calls, unpacked, Decoded(writer_schema))

\* decode_message as it would be if it fetched the schema of a not yet
\* memoized id before it tested the magic byte
decode_message_fetches_first(c, writers, decoders, message, response) ==
    LET unpacked == Unpack(Take(message, 5))
        payload == Drop(message, 5)
        schema_id == unpacked.schema_id
        fetch == get_by_id(c, schema_id, response)
        writer_schema == fetch.outcome.value.schema
        Decoded(decoder_schema) ==
            LET read == AvroDecode(decoder_schema, payload) IN
            IF read.ok THEN Return([NoValue EXCEPT !.record = read.record])
            ELSE Raise("EOFError", "codec", None, NoResult)
    IN  IF message = NoneMessage
        THEN SerDone(c, writers, decoders, <<>>, NoHeader, ReturnNone)
        ELSE IF Len(message) <= 5
        THEN SerDone(c, writers, decoders, <<>>, NoHeader,
                     SerializerError("message is too small to decode"))
        ELSE IF unpacked.magic # MAGIC_BYTE /\ schema_id \in DOMAIN decoders
        THEN SerDone(c, writers, decoders, <<>>, unpacked,
                     SerializerError("message does not start with magic byte"))
        ELSE IF unpacked.magic # MAGIC_BYTE
        THEN SerDone(fetch.caches, writers, decoders, fetch.calls, unpacked,
                     SerializerError("message does not start with magic byte"))
        ELSE IF schema_id \in DOMAIN decoders
        THEN SerDone(c, writers, decoders, <<>>, unpacked, Decoded(decoders[schema_id]))
        ELSE IF fetch.outcome.ret = "raise"
        THEN IF fetch.outcome.error.cls = "ClientError"
             THEN SerDone(fetch.caches, writers, decoders, fetch.calls, unpacked,
                          SerializerError("unable to fetch schema with id"))
             ELSE SerDone(fetch.caches, writers, decoders, fetch.calls, unpacked,
                          fetch.outcome)
        ELSE IF fetch.outcome.ret = "none"
        THEN SerDone(fetch.caches, writers, decoders, fetch.calls, unpacked,
                     SerializerError("unable to fetch schema with id"))
        ELSE SerDone(fetch.caches, writers, Put(decoders, schema_id, writer_schema),
                     fetch.calls, unpacked, Decoded(writer_schema))

\* decode_message as it would be without the `except ClientError` around
\* get_by_id: the client's error escapes
decode_message_propagates(c, writers, decoders, message, response) ==
    LET unpacked == Unpack(Take(message, 5))
        payload == Drop(message, 5)
        schema_id == unpacked.schema_id
        fetch == get_by_id(c, schema_id, response)
        writer_schema == fetch.outcome.value.schema
        Decoded(decoder_schema) ==
            LET read == AvroDecode(decoder_schema, payload) IN
            IF read.ok THEN Return([NoValue EXCEPT !.record = read.record])
            ELSE Raise("EOFError", "codec", None, NoResult)
    IN  IF message = NoneMessage
        THEN SerDone(c, writers, decoders, <<>>, NoHeader, ReturnNone)
        ELSE IF Len(message) <= 5
        THEN SerDone(c, writers, decoders, <<>>, NoHeader,
                     SerializerError("message is too small to decode"))
        ELSE IF unpacked.magic # MAGIC_BYTE
        THEN SerDone(c, writers, decoders, <<>>, unpacked,
                     SerializerError("message does not start with magic byte"))
        ELSE IF schema_id \in DOMAIN decoders
        THEN SerDone(c, writers, decoders, <<>>, unpacked, Decoded(decoders[schema_id]))
        ELSE IF fetch.outcome.ret = "raise"
        THEN SerDone(fetch.caches, writers, decoders, fetch.calls, unpacked, fetch.outcome)
        ELSE IF fetch.outcome.ret = "none"
        THEN SerDone(fetch.caches, writers, decoders, fetch.calls, unpacked,
                     SerializerError("unable to fetch schema with id"))
        ELSE SerDone(fetch.caches, writers, Put(decoders, schema_id, writer_schema),
                     fetch.calls, unpacked, Decoded(writer_schema))

decode_message(c, writers, decoders, message, response) ==
    LET unpacked == Unpack(Take(message, 5))
        payload == Drop(message, 5)
        schema_id == unpacked.schema_id
        fetch == get_by_id(c, schema_id, response)
        writer_schema == fetch.outcome.value.schema
        Decoded(decoder_schema) ==
            LET read == AvroDecode(decoder_schema, payload) IN
            IF read.ok THEN Return([NoValue EXCEPT !.record = read.record])
            ELSE Raise("EOFError", "codec", None, NoResult)
    IN  IF message = NoneMessage
        THEN SerDone(c, writers, decoders, <<>>, NoHeader, ReturnNone)
        ELSE IF Len(message) <= 5
        THEN SerDone(c, writers, decoders, <<>>, NoHeader,
                     SerializerError("message is too small to decode"))
        ELSE IF unpacked.magic # MAGIC_BYTE
        THEN SerDone(c, writers, decoders, <<>>, unpacked,
                     SerializerError("message does not start with magic byte"))
        ELSE IF schema_id \in DOMAIN decoders
        THEN SerDone(c, writers, decoders, <<>>, unpacked, Decoded(decoders[schema_id]))
        ELSE IF fetch.outcome.ret = "raise"
        THEN IF fetch.outcome.error.cls = "ClientError"
             THEN SerDone(fetch.caches, writers, decoders, fetch.calls, unpacked,
                          SerializerError("unable to fetch schema with id"))
             ELSE SerDone(fetch.caches, writers, decoders, fetch.calls, unpacked,
                          fetch.outcome)
        ELSE IF fetch.outcome.ret = "none"
        THEN SerDone(fetch.caches, writers, decoders, fetch.calls, unpacked,
                     SerializerError("unable to fetch schema with id"))
        ELSE SerDone(fetch.caches, writers, Put(decoders, schema_id, writer_schema),
                     fetch.calls, unpacked, Decoded(writer_schema))

(***************************************************************************)
(* The registry the concurrent callers talk to: registration is idempotent *)
(* and the id is a function of the schema (tests/server/mock_registry.py). *)
(***************************************************************************)
\* the callers sharing one AsyncSchemaRegistryClient and one serializer
Tasks == {"t1", "t2"}
\* the subject the concurrent callers produce to
ConcurrentSubjects == {"s1"}

\* the id the registry assigns to a schema: positive, one per schema
RegistryId(schema) == IF Str(schema) = <<>> THEN 1 ELSE 2

\* versions: per subject the schemas registered, in order of registration;
\* posts: the register calls received, per subject and schema
EmptyRegistry ==
    [versions |-> [s \in ConcurrentSubjects |-> <<>>],
     posts |-> [s \in ConcurrentSubjects |-> [x \in Schemas |-> 0]]]

\* the version of a schema under a subject, None when it is not registered
RegistryVersion(r, subject, schema) ==
    LET registered == r.versions[subject] IN
    IF \E i \in 1..Len(registered) : registered[i] = schema
    THEN CHOOSE i \in 1..Len(registered) : registered[i] = schema
    ELSE None

\* POST /subjects/{subject}
RegistryCheckVersion(r, subject, schema) ==
    IF RegistryVersion(r, subject, schema) = None
    THEN Http(HTTP_404_NOT_FOUND, ErrorBody(HTTP_404_NOT_FOUND))
    ELSE Http(200, Result(RegistryId(schema), RegistryVersion(r, subject, schema),
                          schema, None))

\* POST /subjects/{subject}/versions: the state of the registry afterwards
RegistryRegister(r, subject, schema) ==
    [r EXCEPT !.versions[subject] =
                  IF RegistryVersion(r, subject, schema) = None
                  THEN Append(@, schema) ELSE @,
              !.posts[subject][schema] = @ + 1]

(***************************************************************************)
(* Schema objects built from JSON definitions                              *)
(* (schema_registry/client/schema.py).                                     *)
(***************************************************************************)
\* A definition is the list of its members ("key": value) in the order they
\* are written; json.loads keeps that order in the dict it builds.
Definitions == {<<"type">>, <<"title", "type">>, <<"type", "title">>}

\* JsonSchema.parse_schema: the dict it is given, once validated
parse_schema(schema) == schema

\* BaseSchema.__init__ of a JsonSchema
JsonSchema(definition) == [schema_type |-> "JSON", schema |-> parse_schema(definition)]

\* json.dumps of a dict: its members in insertion order, separated by
\* commas, between braces
json_dumps(schema) ==
    <<"{">> \o [i \in 1..(IF schema = <<>> THEN 0 ELSE 2 * Len(schema) - 1) |->
                  IF i % 2 = 1 THEN schema[(i + 1) \div 2] ELSE ","] \o <<"}">>

\* the interpreter runs (processes) schemas are built in
Runs == {"run1", "run2"}
\* str hashes are 0..MaxHash
MaxHash == 1

\* Python's hash() of a str: salted with a value drawn when the interpreter
\* starts, constant within the run.  `run` holds the hashes the run has
\* handed out, `salted` is what its salt gives for a text not hashed before.
hash(run, text, salted) == IF text \in DOMAIN run THEN run[text] ELSE salted

\* BaseSchema.generate_hash: the _hash of the schema object
generate_hash(run, schema, salted) == hash(run, json_dumps(schema.schema), salted)

(***************************************************************************)
(* State machine of one client used by one caller.                         *)
(***************************************************************************)
\* the default version argument of get_schema, "latest"
Latest == None

\* no response received (yet)
NoResponse == [code |-> None, result |-> NoResult, kind |-> ""]

\* a caller that has not called yet.  pc is the await the caller is
\* suspended at ("check_version", "register": request sent; "..._response":
\* response received, not yet resumed) or "idle" / "done"
IdleTask ==
    [schema |-> NoSchema, subject |-> "", record |-> <<>>, response |-> NoResponse,
     outcome |-> ReturnNone, pc |-> "idle", op |-> ""]

NoArgs ==
    [schema |-> NoSchema, version |-> None, schema_id |-> None, subject |-> "",
     message |-> <<>>, record |-> <<>>]

Init ==
    /\ subject_to_schema_ids = [s \in Subjects |-> EmptyDict]
    /\ subject_to_schema_versions = [s \in Subjects |-> EmptyDict]
    /\ id_to_schema = EmptyDict
    /\ id_to_writers = EmptyDict
    /\ id_to_decoder_func = EmptyDict
    /\ last = [calls |-> <<>>, outcome |-> ReturnNone, unpacked |-> NoHeader,
               op |-> "init", args |-> NoArgs]
    /\ tasks = [t \in Tasks |-> IdleTask]
    /\ registry = EmptyRegistry
    /\ runs = [p \in Runs |-> EmptyDict]

\* a client call: the caches take the values the operation computed
ClientCall(op, args, res) ==
    /\ subject_to_schema_ids' = res.caches.subject_to_schema_ids
    /\ subject_to_schema_versions' = res.caches.subject_to_schema_versions
    /\ id_to_schema' = res.caches.id_to_schema
    /\ last' = [calls |-> res.calls, outcome |-> res.outcome, unpacked |-> NoHeader,
                op |-> op, args |-> args]
    /\ UNCHANGED <<id_to_writers, id_to_decoder_func, tasks, registry, runs>>

\* the responses an operation can get: none is needed when the operation
\* makes no call
Answers(needed, responses) == IF needed THEN responses ELSE {Timeout}

RegisterOn(subjects) ==
    \E subject \in subjects, schema \in Schemas :
      \E r1 \in Answers(Get(subject_to_schema_ids[subject], Str(schema)) = None,
                        CheckVersionResponses(schema)) :
        \E r2 \in Answers(check_version(Caches, subject, schema, r1).outcome.ret = "none",
                          RegisterResponses) :
          ClientCall("register",
                     [NoArgs EXCEPT !.subject = subject, !.schema = schema],
                     register(Caches, subject, schema, r1, r2))

CheckVersionOn(subjects) ==
    \E subject \in subjects, schema \in Schemas :
      \E r \in CheckVersionResponses(schema) :
        ClientCall("check_version",
                   [NoArgs EXCEPT !.subject = subject, !.schema = schema],
                   check_version(Caches, subject, schema, r))

GetById ==
    \E schema_id \in Ids :
      \E r \in Answers(schema_id \notin DOMAIN id_to_schema, GetByIdResponses) :
        ClientCall("get_by_id", [NoArgs EXCEPT !.schema_id = schema_id],
                   get_by_id(Caches, schema_id, r))

GetSchemaOn(subjects) ==
    \E subject \in subjects, version \in {Latest} :
      \E r \in GetSchemaResponses :
        ClientCall("get_schema",
                   [NoArgs EXCEPT !.subject = subject, !.version = version],
                   get_schema(Caches, subject, version, r))

GetVersionsOn(subjects) ==
    \E subject \in subjects :
      \E r \in VersionListResponses :
        ClientCall("get_versions", [NoArgs EXCEPT !.subject = subject],
                   get_versions(Caches, subject, r))

DeleteSubjectOn(subjects) ==
    \E subject \in subjects :
      \E r \in VersionListResponses :
        ClientCall("delete_subject", [NoArgs EXCEPT !.subject = subject],
                   delete_subject(Caches, subject, r))

DeleteVersionOn(subjects) ==
    \E subject \in subjects, version \in {Latest} :
      \E r \in DeleteVersionResponses :
        ClientCall("delete_version",
                   [NoArgs EXCEPT !.subject = subject, !.version = version],
                   delete_version(Caches, subject, version, r))

TestCompatibilityOn(subjects) ==
    \E subject \in subjects, schema \in Schemas, version \in {Latest} :
      \E r \in CompatibilityResponses :
        ClientCall("test_compatibility",
                   [NoArgs EXCEPT !.subject = subject, !.schema = schema,
                                  !.version = version],
                   test_compatibility(Caches, subject, schema, version, r))

Register == RegisterOn(Subjects)
CheckVersion == CheckVersionOn(Subjects)
GetSchema == GetSchemaOn(Subjects)
GetVersions == GetVersionsOn(Subjects)
DeleteSubject == DeleteSubjectOn(Subjects)

Next ==
    \/ Register
    \/ CheckVersion
    \/ GetById
    \/ GetSchema
    \/ GetVersions
    \/ DeleteSubject

Spec == Init /\ [][Next]_vars

(***************************************************************************)
(* State machine of one client used by one caller for one subject, with    *)
(* every operation of the client, the administrative ones included.        *)
(***************************************************************************)
AdminSubjects == {"s1"}

AdminRegister == RegisterOn(AdminSubjects)
AdminCheckVersion == CheckVersionOn(AdminSubjects)
AdminGetSchema == GetSchemaOn(AdminSubjects)
AdminGetVersions == GetVersionsOn(AdminSubjects)
AdminDeleteSubject == DeleteSubjectOn(AdminSubjects)
DeleteVersion == DeleteVersionOn(AdminSubjects)
TestCompatibility == TestCompatibilityOn(AdminSubjects)

NextAdmin ==
    \/ AdminRegister
    \/ AdminCheckVersion
    \/ GetById
    \/ AdminGetSchema
    \/ AdminGetVersions
    \/ AdminDeleteSubject
    \/ DeleteVersion
    \/ TestCompatibility

SpecAdmin == Init /\ [][NextAdmin]_vars

(***************************************************************************)
(* State machine of one cache state driven by the operations of            *)
(* SchemaRegistryClient and of AsyncSchemaRegistryClient, for one subject. *)
(***************************************************************************)
\* a task calls an operation of the async client and awaits its return
AsyncClientCall ==
    \/ \E subject \in AdminSubjects, schema \in Schemas :
         \E r1 \in Answers(Get(subject_to_schema_ids[subject], Str(schema)) = None,
                           CheckVersionResponses(schema)) :
           \E r2 \in Answers(async_check_version(Caches, subject, schema, r1).outcome.ret
                               = "none",
                             RegisterResponses) :
             ClientCall("register",
                        [NoArgs EXCEPT !.subject = subject, !.schema = schema],
                        async_register(Caches, subject, schema, r1, r2))
    \/ \E subject \in AdminSubjects, schema \in Schemas :
         \E r \in CheckVersionResponses(schema) :
           ClientCall("check_version",
                      [NoArgs EXCEPT !.subject = subject, !.schema = schema],
                      async_check_version(Caches, subject, schema, r))
    \/ \E schema_id \in Ids :
         \E r \in Answers(schema_id \notin DOMAIN id_to_schema, GetByIdResponses) :
           ClientCall("get_by_id", [NoArgs EXCEPT !.schema_id = schema_id],
                      async_get_by_id(Caches, schema_id, r))
    \/ \E subject \in AdminSubjects, version \in {Latest} :
         \E r \in GetSchemaResponses :
           ClientCall("get_schema",
                      [NoArgs EXCEPT !.subject = subject, !.version = version],
                      async_get_schema(Caches, subject, version, r))
    \/ \E subject \in AdminSubjects :
         \E r \in VersionListResponses :
           ClientCall("get_versions", [NoArgs EXCEPT !.subject = subject],
                      async_get_versions(Caches, subject, r))
    \/ \E subject \in AdminSubjects :
         \E r \in VersionListResponses :
           ClientCall("delete_subject", [NoArgs EXCEPT !.subject = subject],
                      async_delete_subject(Caches, subject, r))
    \/ \E subject \in AdminSubjects, version \in {Latest} :
         \E r \in DeleteVersionResponses :
           ClientCall("delete_version",
                      [NoArgs EXCEPT !.subject = subject, !.version = version],
                      async_delete_version(Caches, subject, version, r))
    \/ \E subject \in AdminSubjects, schema \in Schemas, version \in {Latest} :
         \E r \in CompatibilityResponses :
           ClientCall("test_compatibility",
                      [NoArgs EXCEPT !.subject = subject, !.schema = schema,
                                     !.version = version],
                      async_test_compatibility(Caches, subject, schema, version, r))

SpecEquivalence == Init /\ [][NextAdmin \/ AsyncClientCall]_vars

(***************************************************************************)
(* State machine of one serializer (with its client) used by one caller.   *)
(***************************************************************************)
\* payloads the codec produces for the records of the model
Payloads == { AvroEncode(x, r).bytes : x \in Schemas, r \in Records }

\* raw inputs of decode_message: prefixes of an envelope with a right or a
\* wrong magic byte
Messages ==
    { Take(Pack(m, i) \o p, n) :
        m \in {MAGIC_BYTE, 1}, i \in Ids, p \in Payloads, n \in 0..MaxLen }

\* the serializer is exercised against the registry answers that differ for
\* it: success, not found, server error, timeout (it never reads a version)
Brief(responses) ==
    { r \in responses :
        r.kind = "timeout" \/ (r.code \in {200, 404, 500} /\ r.result.version = None) }

\* the subjects records are produced for
SerializerSubjects == {"s1"}

\* a serializer call: caches and memos take the values the call computed
SerializerCall(op, args, res) ==
    /\ subject_to_schema_ids' = res.caches.subject_to_schema_ids
    /\ subject_to_schema_versions' = res.caches.subject_to_schema_versions
    /\ id_to_schema' = res.caches.id_to_schema
    /\ id_to_writers' = res.id_to_writers
    /\ id_to_decoder_func' = res.id_to_decoder_func
    /\ last' = [calls |-> res.calls, outcome |-> res.outcome, unpacked |-> res.unpacked,
                op |-> op, args |-> args]
    /\ UNCHANGED <<tasks, registry, runs>>

EncodeRecordWithSchema ==
    \E subject \in SerializerSubjects, schema \in Schemas, record \in Records :
      \E r1 \in Answers(Get(subject_to_schema_ids[subject], Str(schema)) = None,
                        Brief(CheckVersionResponses(schema))) :
        \E r2 \in Answers(check_version(Caches, subject, schema, r1).outcome.ret = "none",
                          Brief(RegisterResponses)) :
          SerializerCall("encode_record_with_schema",
                         [NoArgs EXCEPT !.subject = subject, !.schema = schema,
                                        !.record = record],
                         encode_record_with_schema(Caches, id_to_writers,
                             id_to_decoder_func, subject, schema, record, r1, r2))

EncodeRecordWithSchemaId ==
    \E schema_id \in Ids, record \in Records :
      \E r \in Answers(schema_id \notin DOMAIN id_to_writers
                         /\ schema_id \notin DOMAIN id_to_schema,
                       Brief(GetByIdResponses)) :
        SerializerCall("encode_record_with_schema_id",
                       [NoArgs EXCEPT !.schema_id = schema_id, !.record = record],
                       encode_record_with_schema_id(Caches, id_to_writers,
                           id_to_decoder_func, schema_id, record, r))

DecodeMessage ==
    \E message \in Messages \cup {NoneMessage} :
      \E r \in Answers(/\ message # NoneMessage
                       /\ Len(message) > 5
                       /\ Unpack(Take(message, 5)).magic = MAGIC_BYTE
                       /\ Unpack(Take(message, 5)).schema_id
                            \notin DOMAIN id_to_decoder_func \cup DOMAIN id_to_schema,
                       Brief(GetByIdResponses)) :
        SerializerCall("decode_message", [NoArgs EXCEPT !.message = message],
                       decode_message(Caches, id_to_writers, id_to_decoder_func,
                                      message, r))

NextSerializer ==
    \/ EncodeRecordWithSchema
    \/ EncodeRecordWithSchemaId
    \/ DecodeMessage

SpecSerializer == Init /\ [][NextSerializer]_vars

(***************************************************************************)
(* State machine of one client and one serializer used by one caller, with *)
(* the operations that look a schema up or register it.  The serializer is *)
(* called with a record both schemas encode and with the envelope of a     *)
(* one-byte payload per id.                                                *)
(***************************************************************************)
CallsEncodeRecordWithSchema ==
    \E subject \in SerializerSubjects, schema \in Schemas,
       record \in { << <<"int", 0>> >> } :
      \E r1 \in Answers(Get(subject_to_schema_ids[subject], Str(schema)) = None,
                        Brief(CheckVersionResponses(schema))) :
        \E r2 \in Answers(check_version(Caches, subject, schema, r1).outcome.ret = "none",
                          Brief(RegisterResponses)) :
          SerializerCall("encode_record_with_schema",
                         [NoArgs EXCEPT !.subject = subject, !.schema = schema,
                                        !.record = record],
                         encode_record_with_schema(Caches, id_to_writers,
                             id_to_decoder_func, subject, schema, record, r1, r2))

CallsEncodeRecordWithSchemaId ==
    \E schema_id \in Ids, record \in { << <<"int", 0>> >> } :
      \E r \in Answers(schema_id \notin DOMAIN id_to_writers
                         /\ schema_id \notin DOMAIN id_to_schema,
                       Brief(GetByIdResponses)) :
        SerializerCall("encode_record_with_schema_id",
                       [NoArgs EXCEPT !.schema_id = schema_id, !.record = record],
                       encode_record_with_schema_id(Caches, id_to_writers,
                           id_to_decoder_func, schema_id, record, r))

CallsDecodeMessage ==
    \E message \in { Pack(MAGIC_BYTE, i) \o <<0>> : i \in Ids } :
      \E r \in Answers(Unpack(Take(message, 5)).schema_id
                         \notin DOMAIN id_to_decoder_func \cup DOMAIN id_to_schema,
                       Brief(GetByIdResponses)) :
        SerializerCall("decode_message", [NoArgs EXCEPT !.message = message],
                       decode_message(Caches, id_to_writers, id_to_decoder_func,
                                      message, r))

NextCalls ==
    \/ AdminRegister
    \/ AdminCheckVersion
    \/ GetById
    \/ AdminGetSchema
    \/ CallsEncodeRecordWithSchema
    \/ CallsEncodeRecordWithSchemaId
    \/ CallsDecodeMessage

SpecCalls == Init /\ [][NextCalls]_vars

(***************************************************************************)
(* State machine of concurrent callers sharing one AsyncSchemaRegistry-     *)
(* Client and one AsyncMessageSerializer.  A caller runs without            *)
(* interruption from one network await to the next; the registry answers a  *)
(* request at any time after it was sent, and the caller resumes at any     *)
(* time after the answer.                                                   *)
(***************************************************************************)
\* the caches after a step of a caller
SetCaches(c) ==
    /\ subject_to_schema_ids' = c.subject_to_schema_ids
    /\ subject_to_schema_versions' = c.subject_to_schema_versions
    /\ id_to_schema' = c.id_to_schema

\* register has obtained schema_id: register returns it, and
\* encode_record_with_schema goes on to memoize the encoder and to encode,
\* without another await since the encoder is memoized
Finish(t, c, schema_id) ==
    LET task == tasks[t]
        writers1 == IF schema_id \notin DOMAIN id_to_writers
                    THEN Put(id_to_writers, schema_id, task.schema) ELSE id_to_writers
        enc == encode_record_with_schema_id(c, writers1, id_to_decoder_func,
                                            schema_id, task.record, Timeout)
    IN  /\ SetCaches(c)
        /\ IF task.op = "register"
           THEN /\ tasks' = [tasks EXCEPT ![t].pc = "done",
                                 ![t].outcome = Return([NoValue EXCEPT !.schema_id = schema_id])]
                /\ UNCHANGED id_to_writers
           ELSE /\ tasks' = [tasks EXCEPT ![t].pc = "done", ![t].outcome = enc.outcome]
                /\ id_to_writers' = enc.id_to_writers

\* a caller fails with an exception
Fail(t, outcome) ==
    /\ tasks' = [tasks EXCEPT ![t].pc = "done", ![t].outcome = outcome]
    /\ UNCHANGED <<subject_to_schema_ids, subject_to_schema_versions, id_to_schema,
                   id_to_writers>>

\* a caller calls register or encode_record_with_schema and runs up to the
\* first await: the lookup of register, then the lookup of check_version,
\* then the check-version request
Start(t) ==
    /\ tasks[t].pc = "idle"
    /\ \E op \in {"register", "encode_record_with_schema"},
          subject \in ConcurrentSubjects, schema \in Schemas, record \in {<<>>, << <<"int", 1>> >>} :
         LET schema_id == Get(subject_to_schema_ids[subject], Str(schema))
             version == Get(subject_to_schema_versions[subject], Str(schema))
             called == [tasks EXCEPT ![t].op = op, ![t].subject = subject,
                                     ![t].schema = schema, ![t].record = record]
         IN  IF schema_id # None
             THEN /\ SetCaches(Caches)
                  /\ IF op = "register"
                     THEN /\ tasks' = [called EXCEPT ![t].pc = "done",
                                          ![t].outcome =
                                              Return([NoValue EXCEPT !.schema_id = schema_id])]
                          /\ UNCHANGED id_to_writers
                     ELSE LET writers1 == IF schema_id \notin DOMAIN id_to_writers
                                          THEN Put(id_to_writers, schema_id, schema)
                                          ELSE id_to_writers
                              enc == encode_record_with_schema_id(Caches, writers1,
                                         id_to_decoder_func, schema_id, record, Timeout)
                          IN  /\ tasks' = [called EXCEPT ![t].pc = "done",
                                              ![t].outcome = enc.outcome]
                              /\ id_to_writers' = enc.id_to_writers
             ELSE /\ tasks' = [called EXCEPT ![t].pc = "check_version"]
                  /\ UNCHANGED <<subject_to_schema_ids, subject_to_schema_versions,
                                 id_to_schema, id_to_writers>>
    /\ UNCHANGED <<id_to_decoder_func, last, registry, runs>>

\* the registry answers the request of a caller
Answer(t) ==
    LET task == tasks[t] IN
    /\ task.pc \in {"check_version", "register"}
    /\ IF task.pc = "check_version"
       THEN /\ tasks' = [tasks EXCEPT
                            ![t].pc = "check_version_response",
                            ![t].response =
                                RegistryCheckVersion(registry, task.subject, task.schema)]
            /\ UNCHANGED registry
       ELSE /\ registry' = RegistryRegister(registry, task.subject, task.schema)
            /\ tasks' = [tasks EXCEPT
                            ![t].pc = "register_response",
                            ![t].response =
                                Http(200, Result(RegistryId(task.schema), None, NoSchema, None))]
    /\ UNCHANGED <<subject_to_schema_ids, subject_to_schema_versions, id_to_schema,
                   id_to_writers, id_to_decoder_func, last, runs>>

\* a caller resumes in check_version with the answer, and on 404 goes on
\* in register up to the register request
ResumeCheckVersion(t) ==
    LET task == tasks[t]
        code == task.response.code
        result == task.response.result
    IN  /\ task.pc = "check_version_response"
        /\ IF code = HTTP_404_NOT_FOUND
           THEN /\ tasks' = [tasks EXCEPT ![t].pc = "register", ![t].response = NoResponse]
                /\ UNCHANGED <<subject_to_schema_ids, subject_to_schema_versions,
                               id_to_schema, id_to_writers>>
           ELSE IF is_success(code)
           THEN Finish(t, _cache_schema(Caches, task.schema, result.id, task.subject,
                                        result.version),
                       result.id)
           ELSE Fail(t, Raise("ClientError", "Unable to get version of a schema", code,
                              result))
        /\ UNCHANGED <<id_to_decoder_func, last, registry, runs>>

\* a caller resumes in register with the answer of the register request
ResumeRegister(t) ==
    LET task == tasks[t]
        code == task.response.code
        result == task.response.result
    IN  /\ task.pc = "register_response"
        /\ IF RegisterErrorMessage(code) # ""
           THEN Fail(t, Raise("ClientError", RegisterErrorMessage(code), code, result))
           ELSE Finish(t, _cache_schema(Caches, task.schema, result.id, task.subject, None),
                       result.id)
        /\ UNCHANGED <<id_to_decoder_func, last, registry, runs>>

NextConcurrent ==
    \E t \in Tasks :
        \/ Start(t)
        \/ Answer(t)
        \/ ResumeCheckVersion(t)
        \/ ResumeRegister(t)

SpecConcurrent == Init /\ [][NextConcurrent]_vars

(***************************************************************************)
(* The legacy CachedSchemaRegistryClient (schemaregistry/client/client.py) *)
(* used by one caller.  Its subject caches are keyed by Python objects: a  *)
(* schema object or a str, and a str never equals a schema object.         *)
(***************************************************************************)
\* dict keys of the legacy subject caches
SchemaKey(schema) == [schema |-> schema, str |-> "", type |-> "schema"]
StrKey(text) == [schema |-> NoSchema, str |-> text, type |-> "str"]

\* avro_schema.name: the name of the record the schema declares
Name(schema) == IF schema.schema = <<>> THEN "Empty" ELSE "Basic"

_add_to_cache(cache, subject, schema, value) ==
    [cache EXCEPT ![subject] = Put(@, SchemaKey(schema), value)]

legacy_cache_schema(c, schema, schema_id, subject, version) ==
    LET cached == IF schema_id \in DOMAIN c.id_to_schema
                  THEN c.id_to_schema[schema_id] ELSE schema
        c1 == IF schema_id \in DOMAIN c.id_to_schema
              THEN c
              ELSE [c EXCEPT !.id_to_schema = Put(@, schema_id, schema)]
        c2 == IF subject # NoSubject
              THEN [c1 EXCEPT !.subject_to_schema_ids =
                                  _add_to_cache(@, subject, cached, schema_id)]
              ELSE c1
    IN  IF subject # NoSubject /\ version # None /\ version # 0
        THEN [c2 EXCEPT !.subject_to_schema_versions =
                            _add_to_cache(@, subject, cached, version)]
        ELSE c2

legacy_register(c, subject, avro_schema, response) ==
    LET schema_id == Get(c.subject_to_schema_ids[subject], StrKey(Name(avro_schema)))
        calls == <<Call("register", response)>>
        code == response.code
        result == response.result
        msg == IF code = 401 \/ code = 403 THEN "Unauthorized access"
               ELSE IF code = 409 THEN "Incompatible Avro schema"
               ELSE IF code = 422 THEN "Invalid Avro schema"
               ELSE IF ~(code >= 200 /\ code <= 299) THEN "Unable to register schema"
               ELSE ""
    IN  IF schema_id # None
        THEN Done(c, <<>>, Return([NoValue EXCEPT !.schema_id = schema_id]))
        ELSE IF response.kind = "timeout"
        THEN Done(c, calls, RaiseTimeout)
        ELSE IF msg # ""
        THEN Done(c, calls, Raise("ClientError", msg, None, NoResult))
        ELSE Done(legacy_cache_schema(c, avro_schema, result.id, subject, None), calls,
                  Return([NoValue EXCEPT !.schema_id = result.id]))

legacy_get_version(c, subject, avro_schema, response) ==
    LET version == Get(c.subject_to_schema_versions[subject], SchemaKey(avro_schema))
        calls == <<Call("get_version", response)>>
        code == response.code
        result == response.result
    IN  IF version # None
        THEN Done(c, <<>>, Return([NoValue EXCEPT !.version = version]))
        ELSE IF response.kind = "timeout"
        THEN Done(c, calls, RaiseTimeout)
        ELSE IF code = 404
        THEN Done(c, calls, ReturnNone)
        ELSE IF ~(code >= 200 /\ code <= 299)
        THEN Done(c, calls, ReturnNone)
        ELSE Done(legacy_cache_schema(c, avro_schema, result.id, subject, result.version),
                  calls, Return([NoValue EXCEPT !.version = result.version]))

LegacyRegister ==
    \E subject \in Subjects, avro_schema \in Schemas :
      \E r \in RegisterResponses :
        ClientCall("register",
                   [NoArgs EXCEPT !.subject = subject, !.schema = avro_schema],
                   legacy_register(Caches, subject, avro_schema, r))

LegacyGetVersion ==
    \E subject \in Subjects, avro_schema \in Schemas :
      \E r \in Answers(Get(subject_to_schema_versions[subject], SchemaKey(avro_schema)) = None,
                       { x \in CheckVersionResponses(avro_schema) :
                           x.kind = "timeout" \/ ~is_success(x.code)
                             \/ x.result.version # None }) :
        ClientCall("get_version",
                   [NoArgs EXCEPT !.subject = subject, !.schema = avro_schema],
                   legacy_get_version(Caches, subject, avro_schema, r))

NextLegacy ==
    \/ LegacyRegister
    \/ LegacyGetVersion

SpecLegacy == Init /\ [][NextLegacy]_vars

(***************************************************************************)
(* Callers that share one client: threads on a SchemaRegistryClient, tasks *)
(* on an AsyncSchemaRegistryClient.                                        *)
(***************************************************************************)
\* a caller that is not in a call.  In a call, pc is the statement a thread
\* is about to run or the await a task is suspended at, and the other
\* fields are the locals of the call.
IdleCaller ==
    [schema |-> NoSchema, version |-> None, schema_id |-> None, subject |-> NoSubject,
     pc |-> "idle", op |-> ""]

InitCallers ==
    /\ subject_to_schema_ids = [s \in Subjects |-> EmptyDict]
    /\ subject_to_schema_versions = [s \in Subjects |-> EmptyDict]
    /\ id_to_schema = EmptyDict
    /\ id_to_writers = EmptyDict
    /\ id_to_decoder_func = EmptyDict
    /\ last = [calls |-> <<>>, outcome |-> ReturnNone, unpacked |-> NoHeader,
               op |-> "init", args |-> NoArgs]
    /\ tasks = [t \in Tasks |-> IdleCaller]
    /\ registry = EmptyRegistry
    /\ runs = [p \in Runs |-> EmptyDict]

(***************************************************************************)
(* State machine of two threads sharing one SchemaRegistryClient, each in  *)
(* _cache_schema.  A thread can be preempted between any two statements;   *)
(* one dict operation is one step.                                         *)
(***************************************************************************)
\* a thread, in an operation that was answered 2xx, calls
\* _cache_schema(schema, schema_id, subject, version)
CallCacheSchema(t) ==
    /\ tasks[t].pc = "idle"
    /\ \E schema \in Schemas, schema_id \in Ids,
          subject \in {NoSubject} \cup ConcurrentSubjects,
          version \in {None} \cup Versions :
         tasks' = [tasks EXCEPT ![t] =
                      [schema |-> schema, version |-> version, schema_id |-> schema_id,
                       subject |-> subject, pc |-> "test", op |-> "_cache_schema"]]
    /\ SetCaches(Caches)
    /\ UNCHANGED <<id_to_writers, id_to_decoder_func, last, registry, runs>>

\* if schema_id in self.id_to_schema:
TestMembership(t) ==
    /\ tasks[t].pc = "test"
    /\ tasks' = [tasks EXCEPT ![t].pc = IF tasks[t].schema_id \in DOMAIN id_to_schema
                                        THEN "read" ELSE "insert"]
    /\ SetCaches(Caches)
    /\ UNCHANGED <<id_to_writers, id_to_decoder_func, last, registry, runs>>

\* schema = self.id_to_schema[schema_id]
ReadCached(t) ==
    /\ tasks[t].pc = "read"
    /\ tasks' = [tasks EXCEPT ![t].schema = id_to_schema[tasks[t].schema_id],
                              ![t].pc = "subject"]
    /\ SetCaches(Caches)
    /\ UNCHANGED <<id_to_writers, id_to_decoder_func, last, registry, runs>>

\* self.id_to_schema[schema_id] = schema
Insert(t) ==
    /\ tasks[t].pc = "insert"
    /\ tasks' = [tasks EXCEPT ![t].pc = "subject"]
    /\ SetCaches([Caches EXCEPT !.id_to_schema =
                      Put(@, tasks[t].schema_id, tasks[t].schema)])
    /\ UNCHANGED <<id_to_writers, id_to_decoder_func, last, registry, runs>>

\* if subject: self._cache_subject_to_schema_ids(subject, schema, schema_id)
CacheSubjectId(t) ==
    LET task == tasks[t] IN
    /\ task.pc = "subject"
    /\ IF task.subject # NoSubject
       THEN /\ SetCaches(_cache_subject_to_schema_ids(Caches, task.subject, task.schema,
                                                      task.schema_id))
            /\ tasks' = [tasks EXCEPT ![t].pc = "version"]
       ELSE /\ SetCaches(Caches)
            /\ tasks' = [tasks EXCEPT ![t].pc = "done"]
    /\ UNCHANGED <<id_to_writers, id_to_decoder_func, last, registry, runs>>

\* if version: self._cache_subject_to_schema_versions(subject, schema, version)
CacheSubjectVersion(t) ==
    LET task == tasks[t] IN
    /\ task.pc = "version"
    /\ IF Truthy(task.version)
       THEN SetCaches(_cache_subject_to_schema_versions(Caches, task.subject, task.schema,
                                                       task.version))
       ELSE SetCaches(Caches)
    /\ tasks' = [tasks EXCEPT ![t].pc = "done"]
    /\ UNCHANGED <<id_to_writers, id_to_decoder_func, last, registry, runs>>

NextThreads ==
    \E t \in Tasks :
        \/ CallCacheSchema(t)
        \/ TestMembership(t)
        \/ ReadCached(t)
        \/ Insert(t)
        \/ CacheSubjectId(t)
        \/ CacheSubjectVersion(t)

SpecThreads == InitCallers /\ [][NextThreads]_vars

(***************************************************************************)
(* State machine of two tasks sharing one AsyncMessageSerializer (and its  *)
(* AsyncSchemaRegistryClient), each decoding or encoding by schema id.  A  *)
(* task is suspended only at the request of get_by_id; the answer is       *)
(* chosen when the task resumes.                                           *)
(***************************************************************************)
\* the memo an operation of the serializer looks its codec up in
Memo(op) == IF op = "decode_message" THEN id_to_decoder_func ELSE id_to_writers

\* the memos after the codec of `schema` was stored for schema_id by op
SetMemo(op, schema_id, schema) ==
    IF op = "decode_message"
    THEN /\ id_to_decoder_func' = Put(id_to_decoder_func, schema_id, schema)
         /\ UNCHANGED id_to_writers
    ELSE /\ id_to_writers' = Put(id_to_writers, schema_id, schema)
         /\ UNCHANGED id_to_decoder_func

\* a task calls decode_message with a well-formed envelope of schema_id, or
\* encode_record_with_schema_id(schema_id, record), and runs up to the await
\* of get_by_id: a memoized codec is used at once, a schema the client has
\* cached is returned by get_by_id without suspension.  A call starts when
\* the task has made no call yet or its last call returned ("done") or
\* raised ("failed").
StartCodec(t) ==
    /\ tasks[t].pc \in {"idle", "done", "failed"}
    /\ \E op \in {"decode_message", "encode_record_with_schema_id"}, schema_id \in Ids :
         LET called == [tasks EXCEPT ![t] = [IdleCaller EXCEPT !.op = op,
                                                              !.schema_id = schema_id]]
         IN  IF schema_id \in DOMAIN Memo(op)
             THEN /\ tasks' = [called EXCEPT ![t].pc = "done"]
                  /\ UNCHANGED <<id_to_writers, id_to_decoder_func>>
             ELSE IF schema_id \in DOMAIN id_to_schema
             THEN /\ tasks' = [called EXCEPT ![t].pc = "done"]
                  /\ SetMemo(op, schema_id, id_to_schema[schema_id])
             ELSE /\ tasks' = [called EXCEPT ![t].pc = "get_by_id"]
                  /\ UNCHANGED <<id_to_writers, id_to_decoder_func>>
    /\ SetCaches(Caches)
    /\ UNCHANGED <<last, registry, runs>>

\* the answer of get_by_id arrives and the task resumes: get_by_id caches
\* and returns the schema of the answer, the serializer builds the codec and
\* stores it in the memo
ResumeCodec(t) ==
    LET task == tasks[t] IN
    /\ task.pc = "get_by_id"
    /\ \E response \in Brief(GetByIdResponses) :
         IF response.kind # "timeout" /\ is_success(response.code)
         THEN /\ SetCaches(_cache_schema(Caches, response.result.schema, task.schema_id,
                                         NoSubject, None))
              /\ SetMemo(task.op, task.schema_id, response.result.schema)
              /\ tasks' = [tasks EXCEPT ![t].pc = "done"]
         ELSE /\ SetCaches(Caches)
              /\ UNCHANGED <<id_to_writers, id_to_decoder_func>>
              /\ tasks' = [tasks EXCEPT ![t].pc = "failed"]
    /\ UNCHANGED <<last, registry, runs>>

NextAsyncSerializer ==
    \E t \in Tasks :
        \/ StartCodec(t)
        \/ ResumeCodec(t)

SpecAsyncSerializer == InitCallers /\ [][NextAsyncSerializer]_vars

(***************************************************************************)
(* State machine of two tasks sharing one AsyncSchemaRegistryClient, each  *)
(* in register, check_version, get_by_id or get_schema.  A task is         *)
(* suspended only at a request; the answer is chosen when it resumes, and  *)
(* the task then runs without interruption to its next request or to the   *)
(* end of the call.                                                        *)
(***************************************************************************)
\* a task calls an operation and runs up to its first await
StartClient(t) ==
    /\ tasks[t].pc = "idle"
    /\ \E op \in {"register", "check_version", "get_by_id", "get_schema"},
          subject \in ConcurrentSubjects, schema \in Schemas, schema_id \in Ids :
         LET cached_id == Get(subject_to_schema_ids[subject], Str(schema))
             cached_version == Get(subject_to_schema_versions[subject], Str(schema))
             by_schema == [IdleCaller EXCEPT !.op = op, !.subject = subject,
                                             !.schema = schema]
         IN  IF op = "register"
             THEN tasks' = [tasks EXCEPT ![t] =
                               IF cached_id # None THEN IdleCaller
                               ELSE [by_schema EXCEPT !.pc = "check_version"]]
             ELSE IF op = "check_version"
             THEN tasks' = [tasks EXCEPT ![t] =
                               IF Truthy(cached_version) /\ Truthy(cached_id) THEN IdleCaller
                               ELSE [by_schema EXCEPT !.pc = "check_version"]]
             ELSE IF op = "get_by_id"
             THEN tasks' = [tasks EXCEPT ![t] =
                               IF schema_id \in DOMAIN id_to_schema THEN IdleCaller
                               ELSE [IdleCaller EXCEPT !.op = op, !.schema_id = schema_id,
                                                       !.pc = "get_by_id"]]
             ELSE tasks' = [tasks EXCEPT ![t] =
                               [IdleCaller EXCEPT !.op = op, !.subject = subject,
                                                  !.pc = "get_schema"]]
    /\ tasks'[t] # IdleCaller
    /\ SetCaches(Caches)
    /\ UNCHANGED <<id_to_writers, id_to_decoder_func, last, registry, runs>>

\* the call of a task ends
EndCall(t, c) ==
    /\ SetCaches(c)
    /\ tasks' = [tasks EXCEPT ![t] = IdleCaller]

\* the answer of check-version arrives and the task resumes in
\* check_version; register goes on after a 404 to its own request
ResumeClientCheckVersion(t) ==
    LET task == tasks[t] IN
    /\ task.pc = "check_version"
    /\ \E response \in CheckVersionResponses(task.schema) :
         IF response.kind # "timeout" /\ response.code = HTTP_404_NOT_FOUND
                /\ task.op = "register"
         THEN /\ SetCaches(Caches)
              /\ tasks' = [tasks EXCEPT ![t].pc = "register"]
         ELSE IF response.kind # "timeout" /\ is_success(response.code)
         THEN EndCall(t, _cache_schema(Caches, task.schema, response.result.id,
                                       task.subject, response.result.version))
         ELSE EndCall(t, Caches)
    /\ UNCHANGED <<id_to_writers, id_to_decoder_func, last, registry, runs>>

\* the answer of the register request arrives and the task resumes
ResumeClientRegister(t) ==
    LET task == tasks[t] IN
    /\ task.pc = "register"
    /\ \E response \in RegisterResponses :
         IF response.kind # "timeout" /\ RegisterErrorMessage(response.code) = ""
         THEN EndCall(t, _cache_schema(Caches, task.schema, response.result.id,
                                       task.subject, None))
         ELSE EndCall(t, Caches)
    /\ UNCHANGED <<id_to_writers, id_to_decoder_func, last, registry, runs>>

\* the answer of get_by_id arrives and the task resumes
ResumeClientGetById(t) ==
    LET task == tasks[t] IN
    /\ task.pc = "get_by_id"
    /\ \E response \in GetByIdResponses :
         IF response.kind # "timeout" /\ is_success(response.code)
         THEN EndCall(t, _cache_schema(Caches, response.result.schema, task.schema_id,
                                       NoSubject, None))
         ELSE EndCall(t, Caches)
    /\ UNCHANGED <<id_to_writers, id_to_decoder_func, last, registry, runs>>

\* the answer of get_schema arrives and the task resumes
ResumeClientGetSchema(t) ==
    LET task == tasks[t] IN
    /\ task.pc = "get_schema"
    /\ \E response \in GetSchemaResponses :
         LET result == response.result
             schema == IF result.id \in DOMAIN id_to_schema
                       THEN id_to_schema[result.id] ELSE result.schema
         IN  IF response.kind # "timeout" /\ is_success(response.code)
             THEN EndCall(t, _cache_schema(Caches, schema, result.id, task.subject,
                                           result.version))
             ELSE EndCall(t, Caches)
    /\ UNCHANGED <<id_to_writers, id_to_decoder_func, last, registry, runs>>

NextAsyncClient ==
    \E t \in Tasks :
        \/ StartClient(t)
        \/ ResumeClientCheckVersion(t)
        \/ ResumeClientRegister(t)
        \/ ResumeClientGetById(t)
        \/ ResumeClientGetSchema(t)

SpecAsyncClient == InitCallers /\ [][NextAsyncClient]_vars

(***************************************************************************)
(* State machine of one client on which, after any calls, a caller         *)
(* registers a schema, deletes the subject or its latest version, and      *)
(* registers the schema again, with no other call in between.              *)
(***************************************************************************)
\* the three calls of the caller; its position is the call it returned
\* from, and `outcome` keeps what the first register returned
RegisterDeleteRegister(t) ==
    LET task == tasks[t]
        Called(op, args, res, pc) ==
            /\ SetCaches(res.caches)
            /\ last' = [calls |-> res.calls, outcome |-> res.outcome,
                        unpacked |-> NoHeader, op |-> op, args |-> args]
            /\ tasks' = [tasks EXCEPT ![t].pc = pc, ![t].op = op,
                                      ![t].subject = args.subject,
                                      ![t].schema = IF pc = "registered"
                                                    THEN args.schema ELSE @,
                                      ![t].outcome = IF pc = "registered"
                                                     THEN res.outcome ELSE @]
        Registers(subject, schema, pc) ==
            \E r1 \in Answers(Get(subject_to_schema_ids[subject], Str(schema)) = None,
                              CheckVersionResponses(schema)) :
              \E r2 \in Answers(check_version(Caches, subject, schema, r1).outcome.ret
                                  = "none",
                                RegisterResponses) :
                LET res == register(Caches, subject, schema, r1, r2) IN
                /\ pc = "registered" => res.outcome.ret = "value"
                /\ Called("register",
                          [NoArgs EXCEPT !.subject = subject, !.schema = schema], res, pc)
    IN  /\ \A u \in Tasks \ {t} : tasks[u].pc = "idle"
        /\ \/ /\ task.pc = "idle"
              /\ \E subject \in AdminSubjects, schema \in Schemas :
                   Registers(subject, schema, "registered")
           \/ /\ task.pc = "registered"
              /\ \E r \in VersionListResponses :
                   /\ r.kind = "http" /\ is_success(r.code)
                   /\ Called("delete_subject", [NoArgs EXCEPT !.subject = task.subject],
                             delete_subject(Caches, task.subject, r), "deleted")
           \/ /\ task.pc = "registered"
              /\ \E r \in DeleteVersionResponses :
                   /\ r.kind = "http" /\ is_success(r.code)
                   /\ Called("delete_version",
                             [NoArgs EXCEPT !.subject = task.subject, !.version = Latest],
                             delete_version(Caches, task.subject, Latest, r), "deleted")
           \/ /\ task.pc = "deleted"
              /\ Registers(task.subject, task.schema, "done")
        /\ UNCHANGED <<id_to_writers, id_to_decoder_func, registry, runs>>

NextDeletion ==
    \/ (\A t \in Tasks : tasks[t].pc = "idle") /\ NextAdmin
    \/ \E t \in Tasks : RegisterDeleteRegister(t)

SpecDeletion == Init /\ [][NextDeletion]_vars

(***************************************************************************)
(* State machine of two interpreter runs building schema objects.          *)
(***************************************************************************)
\* JsonSchema(definition) in a run: parse, then generate_hash
BuildSchema ==
    \E p \in Runs, definition \in Definitions, salted \in 0..MaxHash :
      LET schema == JsonSchema(definition) IN
      /\ runs' = [runs EXCEPT ![p] = Put(@, json_dumps(schema.schema),
                                          generate_hash(@, schema, salted))]
      /\ UNCHANGED <<subject_to_schema_ids, subject_to_schema_versions, id_to_schema,
                     id_to_writers, id_to_decoder_func, last, tasks, registry>>

SpecIdentity == Init /\ [][BuildSchema]_vars

(***************************************************************************)
(* State machine of one client registering JSON schemas built from         *)
(* definitions.                                                            *)
(***************************************************************************)
RegisterDefinition ==
    \E subject \in AdminSubjects, definition \in Definitions :
      LET schema == JsonSchema(definition) IN
      \E r1 \in Answers(Get(subject_to_schema_ids[subject], Str(schema)) = None,
                        CheckVersionResponses(schema)) :
        \E r2 \in Answers(check_version(Caches, subject, schema, r1).outcome.ret = "none",
                          RegisterResponses) :
          ClientCall("register",
                     [NoArgs EXCEPT !.subject = subject, !.schema = schema],
                     register(Caches, subject, schema, r1, r2))

SpecCanonical == Init /\ [][RegisterDefinition]_vars

(***************************************************************************)
(* Properties.                                                             *)
(***************************************************************************)
\* the call just made is `op` and it returned a value (not None, no error)
Returned(l, op) == l.op = op /\ l.outcome.ret = "value"

\* C1: once register(s, x) has returned an id, an immediately following
\* register(s, x) on the same client returns the same id and issues no
\* network call, whatever ran before the first call.
IdempotentRegistration ==
    [][(Returned(last, "register") /\ last'.op = "register" /\ last'.args = last.args)
        => /\ Returned(last', "register")
           /\ last'.outcome.value.schema_id = last.outcome.value.schema_id
           /\ last'.calls = <<>>]_vars

\* C2: a schema held by id_to_schema[id] is never replaced or removed, and
\* after schemaB was recorded under an id that maps to schemaA, get_by_id(id)
\* still returns schemaA.
FirstWriteWins ==
    [][/\ \A id \in DOMAIN id_to_schema :
            id \in DOMAIN id_to_schema' /\ id_to_schema'[id] = id_to_schema[id]
       /\ (last'.op = "get_by_id" /\ last'.args.schema_id \in DOMAIN id_to_schema)
            => /\ Returned(last', "get_by_id")
               /\ last'.outcome.value.schema = id_to_schema[last'.args.schema_id]]_vars

\* a schema was just recorded (by register or check_version) under an id
\* that maps to a schema of another identity
RecordedUnderTakenId ==
    /\ last.op \in {"register", "check_version"}
    /\ last.outcome.ret = "value"
    /\ last.calls # <<>>
    /\ last.outcome.value.schema_id \in DOMAIN id_to_schema
    /\ Str(id_to_schema[last.outcome.value.schema_id]) # Str(last.args.schema)

\* C3: every entry subject_to_schema_ids[s][k] = id has id in id_to_schema
\* and the cache key of id_to_schema[id] is k.
CrossMapInvariant ==
    \A s \in Subjects : \A k \in DOMAIN subject_to_schema_ids[s] :
        LET id == subject_to_schema_ids[s][k] IN
        id \in DOMAIN id_to_schema /\ Str(id_to_schema[id]) = k

\* a subject entry exists right after a schema was recorded under an id
\* already taken by another schema
SubjectEntryAfterCollision ==
    /\ RecordedUnderTakenId
    /\ \E k \in DOMAIN subject_to_schema_ids[last.args.subject] :
         subject_to_schema_ids[last.args.subject][k] = last.outcome.value.schema_id

\* C4: decode_message(encode_record_with_schema(s, x, r)) returns r for
\* every schema x and every valid record r of x, empty payloads included.
RoundTrip ==
    [][(/\ Returned(last, "encode_record_with_schema")
        /\ Conforms(last.args.record, last.args.schema)
        /\ last'.op = "decode_message"
        /\ last'.args.message = last.outcome.value.message)
        => /\ Returned(last', "decode_message")
           /\ last'.outcome.value.record = last.args.record]_vars

\* the big-endian value of bytes 1..4 (positions 2..5) of a message
BigEndianId(message) ==
    message[2] * 16777216 + message[3] * 65536 + message[4] * 256 + message[5]

LengthAndMagicValidation ==
    (last.op = "decode_message" /\ last.args.message # NoneMessage)
        => LET message == last.args.message IN
           /\ Len(message) < 5
                => /\ last.outcome.ret = "raise"
                   /\ last.outcome.error.cls = "SerializerError"
                   /\ last.outcome.error.message = "message is too small to decode"
           /\ (Len(message) >= 5 /\ message[1] # 0)
                => /\ last.outcome.ret = "raise"
                   /\ last.outcome.error.cls = "SerializerError"
                   /\ last.outcome.error.message = "message does not start with magic byte"

\* C7: on a cache miss register calls check-version first; the register
\* endpoint is called only after check-version answered 404 (two calls,
\* check-version then register); when check-version answers 2xx, register
\* makes no register call, returns the id of that answer, and the id is
\* stored in id_to_schema and in the subject's id map.
RegisterOrReuse ==
    [][(/\ last'.op = "register"
        /\ Get(subject_to_schema_ids[last'.args.subject], Str(last'.args.schema)) = None)
        => LET calls == last'.calls
               id == last'.outcome.value.schema_id
           IN  /\ Len(calls) \in {1, 2}
               /\ calls[1].endpoint = "check_version"
               /\ \A i \in 1..Len(calls) :
                    calls[i].endpoint = "register"
                        => i = 2 /\ Len(calls) = 2 /\ calls[1].code = 404
               /\ calls[1].code = 404 => Len(calls) = 2 /\ calls[2].endpoint = "register"
               /\ is_success(calls[1].code)
                    => /\ Len(calls) = 1
                       /\ Returned(last', "register")
                       /\ id = calls[1].result.id
                       /\ id \in DOMAIN id_to_schema'
                       /\ \E k \in DOMAIN subject_to_schema_ids'[last'.args.subject] :
                            subject_to_schema_ids'[last'.args.subject][k] = id]_vars

\* register has just reused the id check-version answered, without a
\* register call
ReusedFromCheckVersion ==
    /\ Returned(last, "register")
    /\ Len(last.calls) = 1
    /\ last.calls[1].endpoint = "check_version"
    /\ is_success(last.calls[1].code)

\* the error kind the registry's answer to the register call stands for
RegisterErrorKind(code) ==
    CASE code \in {401, 403} -> "Unauthorized access"
      [] code = 409 -> "Incompatible schema"
      [] code = 422 -> "Invalid schema"
      [] OTHER -> "Unable to register schema"

\* the register endpoint was called and answered with a non-2xx status
RegisterRejected ==
    /\ last.op = "register"
    /\ Len(last.calls) = 2
    /\ last.calls[2].endpoint = "register"
    /\ last.calls[2].code # None
    /\ ~(last.calls[2].code \in 200..299)

\* C8: a 401 or 403 answer of the register endpoint makes register fail
\* with the Unauthorized error, 409 with Incompatible-schema, 422 with
\* Invalid-schema, any other non-2xx with Unable-to-register; the error
\* carries the status code and the response body, and no id is returned.
RegisterErrorMapping ==
    RegisterRejected
        => /\ last.outcome.ret = "raise"
           /\ last.outcome.value.schema_id = None
           /\ last.outcome.error.cls = "ClientError"
           /\ last.outcome.error.message = RegisterErrorKind(last.calls[2].code)
           /\ last.outcome.error.http_code = last.calls[2].code
           /\ last.outcome.error.server_traceback = last.calls[2].result

\* register has just been refused with 403
RegisterForbidden ==
    /\ RegisterRejected
    /\ last.calls[2].code = 403
    /\ last.outcome.error.server_traceback = ErrorBody(403)

\* the call just made asked the registry once and got a 404
Got404(l, op) == l.op = op /\ Len(l.calls) = 1 /\ l.calls[1].code = 404

\* C9: get_by_id on an id unknown to the cache and to the registry returns
\* None and caches nothing, so the next get_by_id of that id asks the
\* registry again; get_schema and check_version return None on 404;
\* get_versions and delete_subject return an empty list on 404.
NotFoundIsAbsence ==
    [][/\ Got404(last', "get_by_id")
            => /\ last'.outcome.ret = "none"
               /\ Caches' = Caches
               /\ last'.args.schema_id \notin DOMAIN id_to_schema'
       /\ (/\ Got404(last, "get_by_id")
           /\ last'.op = "get_by_id"
           /\ last'.args.schema_id = last.args.schema_id)
            => Len(last'.calls) = 1 /\ last'.calls[1].endpoint = "get_by_id"
       /\ Got404(last', "get_schema") => last'.outcome.ret = "none"
       /\ Got404(last', "check_version") => last'.outcome.ret = "none"
       /\ Got404(last', "get_versions")
            => Returned(last', "get_versions") /\ last'.outcome.value.versions = <<>>
       /\ Got404(last', "delete_subject")
            => Returned(last', "delete_subject") /\ last'.outcome.value.versions = <<>>]_vars

\* get_by_id has just got a 404 for an id while another id is cached
UnknownIdNotFound ==
    /\ Got404(last, "get_by_id")
    /\ last.outcome.ret = "none"
    /\ DOMAIN id_to_schema # {}

\* C10: a register, check_version, get_by_id or get_schema call that ends
\* in an error, a timeout or a not-found outcome leaves the three caches
\* exactly as they were.
NoPartialCacheWrites ==
    [][(/\ last'.op \in {"register", "check_version", "get_by_id", "get_schema"}
        /\ last'.outcome.ret \in {"raise", "none"})
        => Caches' = Caches]_vars

\* register has just failed at the register endpoint, after a check-version
\* call, on a client whose caches are not empty
RegisterFailedAfterCheck ==
    /\ RegisterRejected
    /\ last.outcome.ret = "raise"
    /\ DOMAIN id_to_schema # {}

\* the registry answered the call just made consistently with `id`: every
\* answer is a 2xx carrying that id, or the 404 of check-version
AnsweredWith(l, id) ==
    \A k \in 1..Len(l.calls) :
        \/ is_success(l.calls[k].code) /\ l.calls[k].result.id = id
        \/ l.calls[k].endpoint = "check_version" /\ l.calls[k].code = 404

\* C11: after register(s1, x) returned an id, register(s2, x) under another
\* subject, with the registry answering the same id for x, returns that id
\* and adds no entry to id_to_schema, which holds one entry for the id.
CrossSubjectIdReuse ==
    [][(/\ Returned(last, "register")
        /\ last'.op = "register"
        /\ last'.args.schema = last.args.schema
        /\ last'.args.subject # last.args.subject
        /\ Get(subject_to_schema_ids[last'.args.subject], Str(last.args.schema))
             \in {None, last.outcome.value.schema_id}
        /\ AnsweredWith(last', last.outcome.value.schema_id))
        => /\ Returned(last', "register")
           /\ last'.outcome.value.schema_id = last.outcome.value.schema_id
           /\ last.outcome.value.schema_id \in DOMAIN id_to_schema
           /\ id_to_schema' = id_to_schema]_vars

\* the same schema has been registered under s1 and, through the registry,
\* under s2 with the same id, and id_to_schema holds exactly one entry
RegisteredUnderTwoSubjects ==
    /\ Returned(last, "register")
    /\ last.args.subject = "s2"
    /\ last.calls # <<>>
    /\ Get(subject_to_schema_ids["s1"], Str(last.args.schema)) = last.outcome.value.schema_id
    /\ Get(subject_to_schema_ids["s2"], Str(last.args.schema)) = last.outcome.value.schema_id
    /\ DOMAIN id_to_schema = {last.outcome.value.schema_id}

\* C12: check_version(s, x) makes no network call whenever an id and a
\* version are cached for (s, x) and returns exactly the cached pair; after
\* a check_version(s, x) that got a 2xx answer, the next check_version(s, x)
\* is served from the cache.
CheckVersionCacheServed ==
    [][/\ (/\ last'.op = "check_version"
           /\ Get(subject_to_schema_ids[last'.args.subject], Str(last'.args.schema)) # None
           /\ Get(subject_to_schema_versions[last'.args.subject], Str(last'.args.schema)) # None)
            => /\ last'.calls = <<>>
               /\ Returned(last', "check_version")
               /\ last'.outcome.value.schema_id
                    = subject_to_schema_ids[last'.args.subject][Str(last'.args.schema)]
               /\ last'.outcome.value.version
                    = subject_to_schema_versions[last'.args.subject][Str(last'.args.schema)]
       /\ (/\ last.op = "check_version"
           /\ Len(last.calls) = 1
           /\ is_success(last.calls[1].code)
           /\ last'.op = "check_version"
           /\ last'.args = last.args)
            => last'.calls = <<>>]_vars

\* C13: no operation removes a cache entry: the keys of id_to_schema and of
\* every subject's id and version map only grow, delete_subject and
\* delete_version leave the three caches as they were, and an id that is
\* cached is resolved by get_by_id without the registry.
NoEntryRemoved ==
    [][/\ DOMAIN id_to_schema \subseteq DOMAIN id_to_schema'
       /\ \A s \in Subjects :
            /\ DOMAIN subject_to_schema_ids[s] \subseteq DOMAIN subject_to_schema_ids'[s]
            /\ DOMAIN subject_to_schema_versions[s]
                 \subseteq DOMAIN subject_to_schema_versions'[s]
       /\ last'.op \in {"delete_subject", "delete_version"} => Caches' = Caches
       /\ (last'.op = "get_by_id" /\ last'.args.schema_id \in DOMAIN id_to_schema)
            => last'.calls = <<>> /\ Returned(last', "get_by_id")]_vars

\* a subject whose schema, id and version are cached has just been deleted
\* at the registry
DeletedWhileCached ==
    /\ Returned(last, "delete_subject")
    /\ last.outcome.value.versions # <<>>
    /\ DOMAIN subject_to_schema_ids[last.args.subject] # {}
    /\ DOMAIN subject_to_schema_versions[last.args.subject] # {}
    /\ DOMAIN id_to_schema # {}

\* the endpoints whose 404 answer is a normal not-found outcome
SoftEndpoints ==
    {"get_by_id", "get_schema", "check_version", "get_versions", "delete_subject",
     "delete_version"}

\* C20: apart from a 404 answer of get_by_id, get_schema, check_version,
\* get_versions, delete_subject and delete_version, every non-2xx answer of
\* the registry makes the client operation fail with a ClientError: it never
\* becomes a normal return value (None, False or an empty list).
ErrorPropagationPolicy ==
    \A k \in 1..Len(last.calls) :
        LET call == last.calls[k] IN
        (/\ call.code # None
         /\ ~(call.code \in 200..299)
         /\ ~(call.code = 404 /\ call.endpoint \in SoftEndpoints))
            => /\ last.outcome.ret = "raise"
               /\ last.outcome.error.cls = "ClientError"

\* C14: decode_message(None) returns None without raising, without any
\* registry call and without changing the decoder memo, the encoder memo or
\* the client caches.
DecodeNone ==
    [][(last'.op = "decode_message" /\ last'.args.message = NoneMessage)
        => /\ last'.outcome = ReturnNone
           /\ last'.calls = <<>>
           /\ id_to_decoder_func' = id_to_decoder_func
           /\ id_to_writers' = id_to_writers
           /\ Caches' = Caches]_vars

\* decode_message(None) has just returned None on a serializer that holds a
\* memoized decoder
DecodedNone ==
    /\ last.op = "decode_message"
    /\ last.args.message = NoneMessage
    /\ last.outcome.ret = "none"
    /\ DOMAIN id_to_decoder_func # {}

\* C15: when the id is neither cached nor known to the registry (get_by_id
\* is answered 404), encode_record_with_schema_id(id, r) and decode_message
\* of a well-formed message carrying the id fail with the serializer's
\* schema-not-found error, and no encoder or decoder is memoized for the id.
SchemaNotFound ==
    [][/\ Got404(last', "encode_record_with_schema_id")
            => /\ last'.outcome.ret = "raise"
               /\ last'.outcome.error.cls = "SerializerError"
               /\ last'.outcome.error.message = "Schema does not exist"
               /\ last'.args.schema_id
                    \notin DOMAIN id_to_writers' \cup DOMAIN id_to_decoder_func'
       /\ Got404(last', "decode_message")
            => /\ last'.outcome.ret = "raise"
               /\ last'.outcome.error.cls = "SerializerError"
               /\ last'.outcome.error.message = "unable to fetch schema with id"
               /\ BigEndianId(last'.args.message)
                    \notin DOMAIN id_to_writers' \cup DOMAIN id_to_decoder_func']_vars

\* encode_record_with_schema_id has just been refused for an id the registry
\* does not know, while a valid record was given and another id is memoized
EncodeUnknownId ==
    /\ Got404(last, "encode_record_with_schema_id")
    /\ last.outcome.ret = "raise"
    /\ last.args.record = <<>>
    /\ DOMAIN id_to_writers # {}

\* what the encoder memoized for `schema` makes of a record under `id`
EncodeOutcome(schema, id, record) ==
    LET written == AvroEncode(schema, record) IN
    IF written.ok
    THEN Return([NoValue EXCEPT !.message = Pack(MAGIC_BYTE, id) \o written.bytes])
    ELSE Raise("TypeError", "codec", None, NoResult)

\* what the decoder memoized for `schema` makes of a payload
DecodeOutcome(schema, payload) ==
    LET read == AvroDecode(schema, payload) IN
    IF read.ok THEN Return([NoValue EXCEPT !.record = read.record])
    ELSE Raise("EOFError", "codec", None, NoResult)

\* the call just made is an encode that obtained an encoder for an id
Encoding(l) ==
    /\ l.op \in {"encode_record_with_schema", "encode_record_with_schema_id"}
    /\ l.unpacked # NoHeader

CodecMemoized ==
    [][/\ \A id \in DOMAIN id_to_writers :
            id \in DOMAIN id_to_writers' /\ id_to_writers'[id] = id_to_writers[id]
       /\ \A id \in DOMAIN id_to_decoder_func :
            /\ id \in DOMAIN id_to_decoder_func'
            /\ id_to_decoder_func'[id] = id_to_decoder_func[id]
       /\ (Encoding(last') /\ last'.unpacked.schema_id \in DOMAIN id_to_writers)
            => /\ last'.outcome = EncodeOutcome(id_to_writers[last'.unpacked.schema_id],
                                                last'.unpacked.schema_id, last'.args.record)
               /\ \A k \in 1..Len(last'.calls) : last'.calls[k].endpoint # "get_by_id"
       /\ (/\ last'.op = "decode_message"
           /\ last'.unpacked # NoHeader
           /\ last'.unpacked.magic = MAGIC_BYTE
           /\ last'.unpacked.schema_id \in DOMAIN id_to_decoder_func)
            => /\ last'.outcome = DecodeOutcome(id_to_decoder_func[last'.unpacked.schema_id],
                                                Drop(last'.args.message, 5))
               /\ last'.calls = <<>>]_vars

\* encode_record_with_schema has just encoded with the encoder memoized for
\* the id the registry answered, which closes over another schema than the
\* one it was given
EncodedWithMemoizedEncoder ==
    /\ Returned(last, "encode_record_with_schema")
    /\ last.calls # <<>>
    /\ last.unpacked.schema_id \in DOMAIN id_to_writers
    /\ id_to_writers[last.unpacked.schema_id] # last.args.schema

\* the caches a single register(s, x) leaves on a fresh client when the
\* registry has never seen (s, x): check-version answers 404 and the
\* register endpoint answers the id of x
SingleRegister(subject, schema) ==
    register([subject_to_schema_ids |-> [s \in Subjects |-> EmptyDict],
              subject_to_schema_versions |-> [s \in Subjects |-> EmptyDict],
              id_to_schema |-> EmptyDict],
             subject, schema, Http(404, ErrorBody(404)),
             Http(200, Result(RegistryId(schema), None, NoSchema, None))).caches

\* every caller has returned from a register call for the same (s, x)
RacedRegister ==
    \A t, u \in Tasks :
        /\ tasks[t].pc = "done"
        /\ tasks[t].op = "register"
        /\ tasks[t].subject = tasks[u].subject
        /\ tasks[t].schema = tasks[u].schema

\* C18: when the concurrent callers of one client have raced register(s, x)
\* for a never-before-seen (s, x) against a registry whose register is
\* idempotent, all calls have returned the same id and the caches equal
\* those a single register(s, x) would have produced.
ConcurrentRegistrationConverges ==
    RacedRegister
        => /\ \A t, u \in Tasks :
                /\ tasks[t].outcome.ret = "value"
                /\ tasks[t].outcome.value.schema_id = tasks[u].outcome.value.schema_id
           /\ \A t \in Tasks : Caches = SingleRegister(tasks[t].subject, tasks[t].schema)

\* C19: under every interleaving of concurrent register(s, x) and
\* encode_record_with_schema(s, x, r) calls for the same (s, x), at most one
\* register network call is issued.
AtMostOneRegisterCall ==
    \A s \in ConcurrentSubjects, x \in Schemas : registry.posts[s][x] <= 1

\* the logical schema a definition denotes: its members in any order
CanonicalForm(definition) == { definition[i] : i \in 1..Len(definition) }

\* a JsonSchema was built from the definition in the run
Built(run, definition) == json_dumps(JsonSchema(definition).schema) \in DOMAIN run
\* BaseSchema.__hash__ of the schema built from the definition in the run
Hash(run, definition) == run[json_dumps(JsonSchema(definition).schema)]

\* C21: the identity of a schema (the hash its equality compares) depends on
\* its canonical form only: schemas built from definitions of the same
\* logical schema have the same identity, in one interpreter run and in two.
DeterministicIdentity ==
    \A p \in Runs, q \in Runs : \A d1 \in Definitions, d2 \in Definitions :
        (/\ CanonicalForm(d1) = CanonicalForm(d2)
         /\ Built(runs[p], d1)
         /\ Built(runs[q], d2))
        => Hash(runs[p], d1) = Hash(runs[q], d2)

\* C22: after register(s, x1) returned an id, register(s, x2) of a schema
\* whose definition differs from that of x1 only in the order of its keys
\* has the same cache key, issues no network call and returns the same id.
CanonicalIdentity ==
    [][(/\ Returned(last, "register")
        /\ last'.op = "register"
        /\ last'.args.subject = last.args.subject
        /\ CanonicalForm(last'.args.schema.schema) = CanonicalForm(last.args.schema.schema))
       => (/\ Str(last'.args.schema) = Str(last.args.schema)
           /\ last'.calls = <<>>
           /\ Returned(last', "register")
           /\ last'.outcome.value.schema_id = last.outcome.value.schema_id)]_vars

\* the most registry calls an operation issues
MaxCalls(op) == IF op \in {"register", "encode_record_with_schema"} THEN 2 ELSE 1

\* the call was answered with a failure: no answer, or a status other than 2xx
Failed(call) == ~is_success(call.code)

\* C23: an operation issues at most MaxCalls registry calls (two for
\* register and encode_record_with_schema: one check-version, then one
\* register; one for the others), never the same call twice, and no call
\* after a failed one other than the register that follows a check-version
\* answered 404.
NoRetries ==
    LET calls == last.calls IN
    /\ Len(calls) <= MaxCalls(last.op)
    /\ \A i \in 1..Len(calls), j \in 1..Len(calls) :
           i # j => calls[i].endpoint # calls[j].endpoint
    /\ Len(calls) = 2 =>
           /\ calls[1].endpoint = "check_version"
           /\ calls[1].code = HTTP_404_NOT_FOUND
           /\ calls[2].endpoint = "register"
    /\ \A i \in 1..Len(calls) : (Failed(calls[i]) /\ i < Len(calls)) => i = 1

\* encode_record_with_schema asked check-version, was answered 404, posted
\* to the register endpoint and failed there
EncodeFailedAtRegister ==
    /\ last.op = "encode_record_with_schema"
    /\ Len(last.calls) = 2
    /\ Failed(last.calls[2])
    /\ last.outcome.ret = "raise"

\* C24: a get_by_id(id) that follows a register(s, x) which returned id
\* issues no network call and returns a schema equal to x, and a
\* get_by_id(id) that follows a get_by_id(id) which returned a schema issues
\* no network call and returns that schema again.
RegisteredSchemaById ==
    [][/\ (/\ Returned(last, "register")
           /\ last'.op = "get_by_id"
           /\ last'.args.schema_id = last.outcome.value.schema_id)
          => (/\ last'.calls = <<>>
              /\ Returned(last', "get_by_id")
              /\ last'.outcome.value.schema = last.args.schema)
       /\ (/\ Returned(last, "get_by_id")
           /\ last'.op = "get_by_id"
           /\ last'.args.schema_id = last.args.schema_id)
          => (/\ last'.calls = <<>>
              /\ Returned(last', "get_by_id")
              /\ last'.outcome.value.schema = last.outcome.value.schema)]_vars

\* the magic byte and the id of a message of more than five bytes
HeaderOf(message) == IF Len(message) > 5 THEN Unpack(Take(message, 5)) ELSE NoHeader

\* the call left the client caches and the codec memos as they were
CachesAndMemosUnchanged ==
    UNCHANGED <<subject_to_schema_ids, subject_to_schema_versions, id_to_schema,
                id_to_writers, id_to_decoder_func>>

\* C25: decode_message tests the length first, then the magic byte, and
\* only then uses the id: a message of at most five bytes fails as too small
\* with no header read, a longer message with another first byte than 0
\* fails on the magic byte, both without a get_by_id call and without a
\* change of the caches or the memos; a call is only made for the id of a
\* header that passed both tests and has no memoized decoder.
DecodePipelineOrder ==
    [][(last'.op = "decode_message" /\ last'.args.message # NoneMessage) =>
          LET message == last'.args.message
              header == HeaderOf(message)
          IN  /\ Len(message) <= 5 =>
                     /\ last'.outcome.error.message = "message is too small to decode"
                     /\ last'.unpacked = NoHeader
                     /\ last'.calls = <<>>
                     /\ CachesAndMemosUnchanged
              /\ (Len(message) > 5 /\ header.magic # MAGIC_BYTE) =>
                     /\ last'.outcome.error.message = "message does not start with magic byte"
                     /\ last'.unpacked = header
                     /\ last'.calls = <<>>
                     /\ CachesAndMemosUnchanged
              /\ last'.calls # <<>> =>
                     /\ Len(message) > 5
                     /\ header.magic = MAGIC_BYTE
                     /\ header.schema_id \notin DOMAIN id_to_decoder_func
                     /\ Len(last'.calls) = 1
                     /\ last'.calls[1].endpoint = "get_by_id"]_vars

\* decode_message rejected a message on its magic byte whose id is known
\* neither to the decoder memo nor to the client
BadMagicUnknownId ==
    /\ last.op = "decode_message"
    /\ last.args.message # NoneMessage
    /\ Len(last.args.message) > 5
    /\ HeaderOf(last.args.message).magic # MAGIC_BYTE
    /\ HeaderOf(last.args.message).schema_id
           \notin DOMAIN id_to_decoder_func \cup DOMAIN id_to_schema
    /\ last.outcome.ret = "raise"

\* thread t runs the insert of _cache_schema in this step
Inserts(t) == tasks[t].pc = "insert" /\ tasks'[t].pc # "insert"

\* C26: with two threads in _cache_schema on one client, id_to_schema[id] is
\* written once: no thread runs the insert for an id that is already
\* present, and an entry is never replaced or removed.
IdWrittenOnce ==
    [][/\ \A t \in Tasks : Inserts(t) => tasks[t].schema_id \notin DOMAIN id_to_schema
       /\ \A id \in DOMAIN id_to_schema :
            id \in DOMAIN id_to_schema' /\ id_to_schema'[id] = id_to_schema[id]]_vars

\* task t resumes from get_by_id with a schema in this step and stores the
\* codec it builds in the memo of op
Memoizes(t, op) ==
    tasks[t].pc = "get_by_id" /\ tasks[t].op = op /\ tasks'[t].pc = "done"

\* C27: with two tasks decoding or encoding by id on one serializer, the
\* decoder (encoder) memoized for an id is set once: no task stores a codec
\* for an id that already has one, and a memoized codec is never replaced.
MemoSetOnce ==
    [][/\ \A t \in Tasks :
            /\ Memoizes(t, "decode_message")
                   => tasks[t].schema_id \notin DOMAIN id_to_decoder_func
            /\ Memoizes(t, "encode_record_with_schema_id")
                   => tasks[t].schema_id \notin DOMAIN id_to_writers
       /\ \A id \in DOMAIN id_to_decoder_func :
            id_to_decoder_func'[id] = id_to_decoder_func[id]
       /\ \A id \in DOMAIN id_to_writers :
            id_to_writers'[id] = id_to_writers[id]]_vars

\* the awaits of the async client
Awaits == {"check_version", "register", "get_by_id", "get_schema"}

\* C28: under every interleaving of register, check_version, get_by_id and
\* get_schema tasks on one async client, an entry of id_to_schema is never
\* replaced or removed and the cross-map invariant holds after every step.
AsyncCacheAtomicity ==
    [][/\ \A id \in DOMAIN id_to_schema :
            id \in DOMAIN id_to_schema' /\ id_to_schema'[id] = id_to_schema[id]
       /\ CrossMapInvariant']_vars

\* while a task is suspended in register or check_version of a schema, the
\* other task is suspended too and an id is cached whose schema is of
\* another identity than the one the first task will record
SuspendedWhileCached ==
    \E t \in Tasks, u \in Tasks :
        /\ t # u
        /\ tasks[t].pc \in {"check_version", "register"}
        /\ tasks[u].pc \in Awaits
        /\ \E id \in DOMAIN id_to_schema : Str(id_to_schema[id]) # Str(tasks[t].schema)

\* the id and the version cached for the schema of the call being made
CachedId(l) == Get(subject_to_schema_ids[l.args.subject], Str(l.args.schema))
CachedVersion(l) == Get(subject_to_schema_versions[l.args.subject], Str(l.args.schema))

\* C29: check_version issues a network call when the cached id or the
\* cached version of the schema is 0; a call answered with version 0 leaves
\* the version entries as they were (no entry is ever 0); register with a
\* cached id of 0 returns 0 without a network call.
ZeroIsAbsent ==
    [][/\ (last'.op = "check_version" /\ (CachedId(last') = 0 \/ CachedVersion(last') = 0))
            => last'.calls # <<>>
       /\ (/\ last'.op \in {"check_version", "get_schema"}
           /\ last'.calls # <<>>
           /\ is_success(last'.calls[1].code)
           /\ last'.calls[1].result.version = 0)
            => UNCHANGED subject_to_schema_versions
       /\ \A subject \in Subjects : \A k \in DOMAIN subject_to_schema_versions'[subject] :
            subject_to_schema_versions'[subject][k] # 0
       /\ (last'.op = "register" /\ CachedId(last') = 0)
            => /\ last'.calls = <<>>
               /\ Returned(last', "register")
               /\ last'.outcome.value.schema_id = 0]_vars

\* check_version was answered 404 for a schema whose cached id is 0 and
\* whose cached version is not: the call was made although both are cached
CheckedWithCachedZeroId ==
    /\ last.op = "check_version"
    /\ Len(last.calls) = 1
    /\ last.calls[1].code = HTTP_404_NOT_FOUND
    /\ CachedId(last) = 0
    /\ Truthy(CachedVersion(last))

\* C30: on the legacy client, a register(subject, schema) that follows a
\* register(subject, schema) which returned an id finds the id in the
\* subject cache: it issues no network call and returns the same id.
LegacyDupeRegister ==
    [][(/\ Returned(last, "register")
        /\ last'.op = "register"
        /\ last'.args.subject = last.args.subject
        /\ last'.args.schema = last.args.schema)
       => (/\ last'.calls = <<>>
           /\ Returned(last', "register")
           /\ last'.outcome.value.schema_id = last.outcome.value.schema_id)]_vars

\* the step records (last'.args.schema, id, last'.args.subject): register or
\* check_version got an id from the registry while id_to_schema holds, for
\* that id, a schema of another identity
RecordsUnderTakenId ==
    /\ last'.op \in {"register", "check_version"}
    /\ last'.outcome.ret = "value"
    /\ last'.calls # <<>>
    /\ last'.outcome.value.schema_id \in DOMAIN id_to_schema
    /\ Str(id_to_schema[last'.outcome.value.schema_id]) # Str(last'.args.schema)

\* the recording writes the subject's id entry, and the version entry when a
\* version was answered, under the key of the schema cached for the id, and
\* leaves the entries under the key of the schema given as they were
KeyedByCachedSchema ==
    RecordsUnderTakenId
        => LET subject == last'.args.subject
               id == last'.outcome.value.schema_id
               version == last'.calls[Len(last'.calls)].result.version
               keyA == Str(id_to_schema[id])
               keyB == Str(last'.args.schema)
           IN  /\ Get(subject_to_schema_ids'[subject], keyA) = id
               /\ Truthy(version)
                    => Get(subject_to_schema_versions'[subject], keyA) = version
               /\ Get(subject_to_schema_ids'[subject], keyB)
                    = Get(subject_to_schema_ids[subject], keyB)
               /\ Get(subject_to_schema_versions'[subject], keyB)
                    = Get(subject_to_schema_versions[subject], keyB)

\* the call that follows such a recording is register or check_version of
\* the same subject and schema
RepeatsAfterCollision ==
    /\ RecordedUnderTakenId
    /\ last'.op \in {"register", "check_version"}
    /\ last'.args = last.args

\* C31 as stated: when (schemaB, id, subject) is recorded while id_to_schema[id]
\* holds schemaA of another identity, the subject's id (and version) entry is
\* written under schemaA's key and none under schemaB's, so a following
\* register(subject, schemaB) or check_version(subject, schemaB) is not
\* served from the cache.
CollisionLeavesSchemaUncached ==
    [][/\ KeyedByCachedSchema
       /\ RepeatsAfterCollision => last'.calls # <<>>]_vars

\* C31: when (schemaB, id, subject) is recorded while id_to_schema[id] holds
\* schemaA of another identity, the subject's id (and version) entry is
\* written under schemaA's key and none under schemaB's, so a following
\* check_version(subject, schemaB) is not served from the cache, and a
\* following register(subject, schemaB) is served from it only with an id
\* that was cached under schemaB's key before the recording.
CollisionKeysByCachedSchema ==
    [][/\ KeyedByCachedSchema
       /\ (RepeatsAfterCollision /\ last'.op = "check_version") => last'.calls # <<>>
       /\ (RepeatsAfterCollision /\ last'.op = "register" /\ last.op = "register")
            => last'.calls # <<>>
       /\ (RepeatsAfterCollision /\ last'.op = "register" /\ last'.calls = <<>>)
            => /\ last.op = "check_version"
               /\ Get(subject_to_schema_ids[last.args.subject], Str(last.args.schema)) # None
               /\ last'.outcome.value.schema_id
                    = subject_to_schema_ids[last.args.subject][Str(last.args.schema)]
               /\ last'.outcome.value.schema_id # last.outcome.value.schema_id]_vars

\* a schema, its id and its version have just been recorded by check_version
\* under the key of another schema, the one cached for the id, and the
\* subject holds no entry under the key of the schema given
CollisionRecordedWithVersion ==
    /\ RecordedUnderTakenId
    /\ last.op = "check_version"
    /\ LET subject == last.args.subject
           id == last.outcome.value.schema_id
       IN  /\ Get(subject_to_schema_ids[subject], Str(id_to_schema[id])) = id
           /\ Get(subject_to_schema_versions[subject], Str(id_to_schema[id]))
                = last.outcome.value.version
           /\ Truthy(last.outcome.value.version)
           /\ Get(subject_to_schema_ids[subject], Str(last.args.schema)) = None

\* the call just made obtained its codec and failed on the payload itself:
\* the encoder rejected the record or the decoder ran out of input
PayloadFailed(l) ==
    /\ l.op \in {"encode_record_with_schema", "encode_record_with_schema_id",
                 "decode_message"}
    /\ l.unpacked # NoHeader
    /\ l.outcome.ret = "raise"
    /\ l.outcome.error.cls \in {"TypeError", "EOFError"}

\* the schema the codec of an id closes over: the memoized one, or the one
\* the client has cached for the id when none is memoized yet
CodecSchema(memo, id) == IF id \in DOMAIN memo THEN memo[id] ELSE id_to_schema[id]

\* after a failure on the payload the codec of the id is memoized and the
\* client caches hold the schema of the id
MemoKeptAfterPayloadFailure ==
    PayloadFailed(last)
        => /\ last.unpacked.schema_id \in DOMAIN id_to_schema
           /\ last.op = "decode_message"
                => last.unpacked.schema_id \in DOMAIN id_to_decoder_func
           /\ last.op # "decode_message"
                => last.unpacked.schema_id \in DOMAIN id_to_writers

\* the call that follows a failure on the payload encodes by id a record
\* the encoder of the same id accepts, or decodes a message of the same id
\* whose payload the decoder can read: it succeeds without a registry call
NextByIdSucceeds ==
    LET id == last.unpacked.schema_id IN
    /\ (/\ PayloadFailed(last)
        /\ last'.op = "encode_record_with_schema_id"
        /\ last'.args.schema_id = id
        /\ AvroEncode(CodecSchema(id_to_writers, id), last'.args.record).ok)
            => Returned(last', "encode_record_with_schema_id") /\ last'.calls = <<>>
    /\ (/\ PayloadFailed(last)
        /\ last'.op = "decode_message"
        /\ last'.args.message # NoneMessage
        /\ Len(last'.args.message) > 5
        /\ Unpack(Take(last'.args.message, 5)) = [schema_id |-> id, magic |-> MAGIC_BYTE]
        /\ AvroDecode(CodecSchema(id_to_decoder_func, id), Drop(last'.args.message, 5)).ok)
            => Returned(last', "decode_message") /\ last'.calls = <<>>

\* the call that follows a failure on the payload encodes, for the subject
\* and schema of the failed call, a record the encoder of the same id
\* accepts: it succeeds without a registry call
NextBySchemaSucceeds ==
    (/\ PayloadFailed(last)
     /\ last.op = "encode_record_with_schema"
     /\ last'.op = "encode_record_with_schema"
     /\ last'.args.subject = last.args.subject
     /\ last'.args.schema = last.args.schema
     /\ AvroEncode(id_to_writers[last.unpacked.schema_id], last'.args.record).ok)
        => /\ Returned(last', "encode_record_with_schema")
           /\ last'.unpacked.schema_id = last.unpacked.schema_id
           /\ last'.calls = <<>>

\* C32: when encoding or decoding the payload itself fails, the encoder or
\* decoder of that id stays memoized and the client caches keep the schema,
\* so the next encode or decode of a valid input for the same id succeeds
\* without any registry call.
CodecMemoizedBeforePayload ==
    [][MemoKeptAfterPayloadFailure' /\ NextByIdSucceeds /\ NextBySchemaSucceeds]_vars

\* the response a call got, and the response of the k-th call of the call
\* just made (none when fewer calls were made)
ResponseOf(call) ==
    [code |-> call.code, result |-> call.result,
     kind |-> IF call.code = None THEN "timeout" ELSE "http"]
Response(l, k) == IF k <= Len(l.calls) THEN ResponseOf(l.calls[k]) ELSE Timeout

\* what SchemaRegistryClient makes of the call `l` from the caches `c`
SyncResult(c, l) ==
    LET a == l.args
        r1 == Response(l, 1)
        r2 == Response(l, 2)
    IN  CASE l.op = "register" -> register(c, a.subject, a.schema, r1, r2)
          [] l.op = "check_version" -> check_version(c, a.subject, a.schema, r1)
          [] l.op = "get_by_id" -> get_by_id(c, a.schema_id, r1)
          [] l.op = "get_schema" -> get_schema(c, a.subject, a.version, r1)
          [] l.op = "get_versions" -> get_versions(c, a.subject, r1)
          [] l.op = "delete_subject" -> delete_subject(c, a.subject, r1)
          [] l.op = "delete_version" -> delete_version(c, a.subject, a.version, r1)
          [] l.op = "test_compatibility"
               -> test_compatibility(c, a.subject, a.schema, a.version, r1)

\* what AsyncSchemaRegistryClient makes of it
AsyncResult(c, l) ==
    LET a == l.args
        r1 == Response(l, 1)
        r2 == Response(l, 2)
    IN  CASE l.op = "register" -> async_register(c, a.subject, a.schema, r1, r2)
          [] l.op = "check_version" -> async_check_version(c, a.subject, a.schema, r1)
          [] l.op = "get_by_id" -> async_get_by_id(c, a.schema_id, r1)
          [] l.op = "get_schema" -> async_get_schema(c, a.subject, a.version, r1)
          [] l.op = "get_versions" -> async_get_versions(c, a.subject, r1)
          [] l.op = "delete_subject" -> async_delete_subject(c, a.subject, r1)
          [] l.op = "delete_version" -> async_delete_version(c, a.subject, a.version, r1)
          [] l.op = "test_compatibility"
               -> async_test_compatibility(c, a.subject, a.schema, a.version, r1)

\* C33: for every operation and every registry response (status code and
\* body), SchemaRegistryClient and AsyncSchemaRegistryClient started from
\* the same cache state produce the same outcome kind (a returned value,
\* None, or a raised error) and the same resulting cache state.
SyncAsyncEquivalence ==
    [][last'.op # "init"
        => /\ SyncResult(Caches, last').outcome.ret = AsyncResult(Caches, last').outcome.ret
           /\ SyncResult(Caches, last').caches = AsyncResult(Caches, last').caches]_vars

\* C34: after register(s, x) returned an id and delete_subject(s) (or
\* delete_version) succeeded on the same client, the following
\* register(s, x) returns the old id from the cache and issues no network
\* call, so the schema is not registered again under s at the registry.
StaleCacheAfterDeletion ==
    [][\A t \in Tasks :
         (tasks[t].pc = "deleted" /\ tasks'[t].pc = "done")
            => /\ last'.calls = <<>>
               /\ Returned(last', "register")
               /\ last'.outcome.value.schema_id = tasks[t].outcome.value.schema_id]_vars

\* get_schema has just been answered 2xx
GetSchemaAnswered(l) ==
    /\ l.op = "get_schema"
    /\ Len(l.calls) = 1
    /\ l.calls[1].code # None
    /\ is_success(l.calls[1].code)

\* C35: get_schema(s, version) always issues exactly one registry call,
\* even when the answer is already cached; on a 2xx answer it records
\* (schema, id, s, version), where schema is the one already cached for the
\* id if there is one, and returns that schema; after that,
\* check_version(s, returned schema) and register(s, returned schema) are
\* served without a network call.
GetSchemaRecords ==
    [][/\ last'.op = "get_schema" => Len(last'.calls) = 1
       /\ GetSchemaAnswered(last')
            => LET result == last'.calls[1].result
                   subject == last'.args.subject
                   schema == IF result.id \in DOMAIN id_to_schema
                             THEN id_to_schema[result.id] ELSE result.schema
               IN  /\ Returned(last', "get_schema")
                   /\ last'.outcome.value.schema = schema
                   /\ Get(id_to_schema', result.id) = schema
                   /\ Get(subject_to_schema_ids'[subject], Str(schema)) = result.id
                   /\ Get(subject_to_schema_versions'[subject], Str(schema)) = result.version
       /\ (/\ GetSchemaAnswered(last)
           /\ last'.op \in {"check_version", "register"}
           /\ last'.args.subject = last.args.subject
           /\ last'.args.schema = last.outcome.value.schema)
            => /\ last'.calls = <<>>
               /\ Returned(last', last'.op)
               /\ last'.outcome.value.schema_id = last.outcome.value.schema_id]_vars

\* the registry answered the k-th call of the call just made with a status
\* that is not 2xx
AnsweredFailure(l, k) ==
    /\ k \in 1..Len(l.calls)
    /\ l.calls[k].code # None
    /\ ~is_success(l.calls[k].code)

\* C36: encode_record_with_schema_id and decode_message never let a
\* ClientError escape: every failure the registry answers to the schema
\* fetch (a status that is not 2xx) surfaces as a SerializerError and
\* memoizes nothing; a ClientError raised by register inside
\* encode_record_with_schema propagates unchanged, with the status code and
\* the body of the answer, and memoizes no encoder.
ErrorWrapping ==
    [][/\ last'.op \in {"encode_record_with_schema_id", "decode_message"}
            => /\ ~(last'.outcome.ret = "raise" /\ last'.outcome.error.cls = "ClientError")
               /\ AnsweredFailure(last', 1)
                    => /\ last'.calls[1].endpoint = "get_by_id"
                       /\ last'.outcome.ret = "raise"
                       /\ last'.outcome.error.cls = "SerializerError"
                       /\ id_to_writers' = id_to_writers
                       /\ id_to_decoder_func' = id_to_decoder_func
       /\ last'.op = "encode_record_with_schema"
            => LET k == Len(last'.calls) IN
               /\ (AnsweredFailure(last', k)
                     /\ ~(last'.calls[k].endpoint = "check_version"
                            /\ last'.calls[k].code = HTTP_404_NOT_FOUND))
                    => /\ last'.outcome.ret = "raise"
                       /\ last'.outcome.error.cls = "ClientError"
                       /\ last'.outcome.error.http_code = last'.calls[k].code
                       /\ last'.outcome.error.server_traceback = last'.calls[k].result
                       /\ id_to_writers' = id_to_writers
               /\ (last'.outcome.ret = "raise" /\ last'.outcome.error.cls = "ClientError")
                    => /\ AnsweredFailure(last', k)
                       /\ id_to_writers' = id_to_writers]_vars

\* decode_message has just failed with a SerializerError on a server error
\* of the schema fetch, on a serializer that holds a memoized encoder
FetchFailureWrapped ==
    /\ last.op = "decode_message"
    /\ Len(last.calls) = 1
    /\ last.calls[1].endpoint = "get_by_id"
    /\ last.calls[1].code = 500
    /\ last.outcome.ret = "raise"
    /\ last.outcome.error.cls = "SerializerError"
    /\ DOMAIN id_to_writers # {}

\* C37: in every reachable state, every entry
\* subject_to_schema_versions[s][k] has a matching entry
\* subject_to_schema_ids[s][k]: a version is written only by the
\* _cache_schema step that has just written the id under the same key.
VersionsImplyIds ==
    \A s \in Subjects :
        DOMAIN subject_to_schema_versions[s] \subseteq DOMAIN subject_to_schema_ids[s]

\* a version was just recorded, with its id, under the key of the schema
\* cached for the id, which is not the schema the call was given
VersionRecordedUnderCachedKey ==
    /\ RecordedUnderTakenId
    /\ LET s == last.args.subject
           k == Str(id_to_schema[last.outcome.value.schema_id])
       IN  /\ k \in DOMAIN subject_to_schema_versions[s]
           /\ subject_to_schema_versions[s][k]
                = last.calls[Len(last.calls)].result.version
           /\ Str(last.args.schema) \notin DOMAIN subject_to_schema_versions[s]
           /\ last.op = "register"
====
